---- MODULE Spec2Model ----
(***************************************************************************)
(* Model of the rule-based X-Bar analysis pipeline:                        *)
(*   tagged tokens -> matchPattern (patterns.js) -> phrase builder         *)
(*   (phrase-builder.js, xbar-node.js) -> SemanticExtractor (extractor.js) *)
(*   -> SemanticValidator (validator.js), driven as Parser.parse /         *)
(*   NLPAnalyzer.analyze drive it.                                         *)
(*                                                                         *)
(* Conventions.  JavaScript null is a record whose discriminating field    *)
(* is "null" (NullToken, NullNode, NullInfo, NullPredicate, NullMeaning).  *)
(* Arrays are sequences, so source index i is model index i + 1.  A        *)
(* function that can raise returns a record with a field threw.            *)
(***************************************************************************)
EXTENDS Integers, Sequences, FiniteSets, TLC

(***************************************************************************)
(* Bounds                                                                  *)
(***************************************************************************)
\* longest sentence drawn freely from the lexicon
MaxLen == 4
\* number of distinct values Entity.generateId can return
MaxId == 2
\* longest subject and longest object run of a directly built Action tree
MaxSubject == 2
MaxObject == 1

(***************************************************************************)
(* core/types.js                                                           *)
(***************************************************************************)
POS == [NOUN |-> "NOUN", VERB |-> "VERB", ADJECTIVE |-> "ADJECTIVE",
        ADVERB |-> "ADVERB", DETERMINER |-> "DETERMINER",
        PREPOSITION |-> "PREPOSITION", CONJUNCTION |-> "CONJUNCTION",
        AUXILIARY |-> "AUXILIARY", COPULA |-> "COPULA",
        PRONOUN |-> "PRONOUN", UNKNOWN |-> "UNKNOWN"]

PhraseType == [NP |-> "NP", VP |-> "VP", AP |-> "AP", ADV_P |-> "AdvP",
               PP |-> "PP", TP |-> "TP", CP |-> "CP", DP |-> "DP"]

XBarLevel == [X |-> "X", X_BAR |-> "X'", XP |-> "XP"]

SemanticRole == [AGENT |-> "AGENT", PATIENT |-> "PATIENT", THEME |-> "THEME",
                 EXPERIENCER |-> "EXPERIENCER", RECIPIENT |-> "RECIPIENT",
                 SOURCE |-> "SOURCE", GOAL |-> "GOAL", LOCATION |-> "LOCATION",
                 TIME |-> "TIME", INSTRUMENT |-> "INSTRUMENT",
                 CAUSE |-> "CAUSE", PROPERTY |-> "PROPERTY", NONE |-> "NONE"]

PredicateType == [IS_A |-> "IS_A", HAS_PROPERTY |-> "HAS_PROPERTY",
                  DOES |-> "DOES", IS_LOCATED |-> "IS_LOCATED", HAS |-> "HAS",
                  UNKNOWN |-> "UNKNOWN"]

SentenceType == [DECLARATIVE |-> "DECLARATIVE", UNKNOWN |-> "UNKNOWN"]

(***************************************************************************)
(* core/token.js: a tagged token.  A feature that is absent is "none",     *)
(* cats is lexicalEntry.categories, lemma is "none" for a token without    *)
(* lemma.                                                                  *)
(***************************************************************************)
NullToken == [pos |-> "null"]

IsNullToken(t) == t.pos = "null"

\* String.toLowerCase on the texts of the lexicon ("It" is the one
\* capitalised text)
toLowerCase(text) == IF text = "It" THEN "it" ELSE text

\* a dictionary word: features holds the grammatical features the core reads
W(text, pos, lemma, number, person, tense, transitive, cats) ==
    [text |-> text, pos |-> pos, lemma |-> lemma,
     features |-> [number |-> number, person |-> person, tense |-> tense,
                   transitive |-> transitive],
     cats |-> cats]

\* The words a tagger can hand to the core: one or two per part of speech.
Lexicon ==
    { W("man",   "NOUN",        "man",  "SINGULAR", "none",  "none",    FALSE, {"person"}),
      W("books", "NOUN",        "book", "PLURAL",   "none",  "none",    FALSE, {"object"}),
      W("It",    "PRONOUN",     "none", "none",     "THIRD", "none",    FALSE, {}),
      W("reads", "VERB",        "read", "none",     "none",  "PRESENT", TRUE,  {"action"}),
      W("red",   "ADJECTIVE",   "red",  "none",     "none",  "none",    FALSE, {"color"}),
      W("very",  "ADVERB",      "very", "none",     "none",  "none",    FALSE, {}),
      W("the",   "DETERMINER",  "the",  "none",     "none",  "none",    FALSE, {}),
      W("on",    "PREPOSITION", "on",   "none",     "none",  "none",    FALSE, {}),
      W("was",   "COPULA",      "was",  "SINGULAR", "none",  "PAST",    FALSE, {}),
      W("xyz",   "UNKNOWN",     "none", "none",     "none",  "none",    FALSE, {}) }

\* Token.getEffectiveLemma: lemma, else (base, never set here) normalized text
getEffectiveLemma(t) == IF t.lemma # "none" THEN t.lemma ELSE toLowerCase(t.text)

\* Parser.tokenize assigns position 0..n-1 to the word tokens
Token(w, i) ==
    [text |-> w.text, pos |-> w.pos, lemma |-> w.lemma, features |-> w.features,
     cats |-> w.cats, position |-> i - 1]

Tag(ws) == [i \in 1..Len(ws) |-> Token(ws[i], i)]

Entry(text) == CHOOSE w \in Lexicon : w.text = text

\* the tagged tokens of a sentence given by its words
Sentence(texts) == Tag([i \in 1..Len(texts) |-> Entry(texts[i])])

RECURSIVE SeqsUpTo(_, _)
SeqsUpTo(S, n) ==
    IF n = 0 THEN { <<>> }
    ELSE LET shorter == SeqsUpTo(S, n - 1)
         IN  shorter \cup { Append(s, x) : s \in { t \in shorter : Len(t) = n - 1 }, x \in S }

\* JavaScript slice(from) and slice(from, to) on model indices:
\* Slice(s, a, b) is the elements a..b of s (empty when a > b)
Slice(s, a, b) == IF a > b \/ a > Len(s) THEN <<>> ELSE SubSeq(s, a, IF b > Len(s) THEN Len(s) ELSE b)

(***************************************************************************)
(* parser/xbar-node.js                                                     *)
(***************************************************************************)
NullNode == [type |-> "null"]

IsNullNode(n) == n.type = "null"

\* XBarNode constructor; role is semantic.role, "unset" while semantic = {}
XBarNode(type, category, head, complement, specifier, adjuncts) ==
    [type |-> type, category |-> category, headToken |-> head,
     complement |-> complement, specifier |-> specifier,
     adjuncts |-> adjuncts, role |-> "unset"]

createHead(token, category) ==
    XBarNode(XBarLevel.X, category, token, NullNode, NullNode, <<>>)

createBar(category, head, complement) ==
    LET node == XBarNode(XBarLevel.X_BAR, category, NullToken, complement, NullNode, <<>>)
    IN  IF ~IsNullNode(head) /\ ~IsNullToken(head.headToken)
        THEN [node EXCEPT !.headToken = head.headToken]
        ELSE node

createPhrase(category, bar, specifier) ==
    LET node == XBarNode(XBarLevel.XP, category, NullToken, NullNode, specifier, <<>>)
    IN  IF ~IsNullNode(bar) THEN [node EXCEPT !.complement = bar] ELSE node

createSimplePhrase(token, category) ==
    createPhrase(category, createBar(category, createHead(token, category), NullNode), NullNode)

createPhraseWithComplement(headToken, category, complement) ==
    createPhrase(category, createBar(category, createHead(headToken, category), complement), NullNode)

\* node.semantic.role = r
setRole(n, r) == [n EXCEPT !.role = r]

\* XBarNode.findHead: the node that carries the head token
RECURSIVE nodeFindHead(_)
nodeFindHead(n) ==
    IF n.type = XBarLevel.X THEN n
    ELSE IF ~IsNullToken(n.headToken) THEN n
    ELSE IF n.type = XBarLevel.XP /\ ~IsNullNode(n.complement)
            /\ n.complement.type = XBarLevel.X_BAR
         THEN nodeFindHead(n.complement)
    ELSE IF n.type = XBarLevel.X_BAR /\ ~IsNullNode(n.complement)
            /\ n.complement.type = XBarLevel.X_BAR
         THEN nodeFindHead(n.complement)
    ELSE n

getHeadToken(n) == nodeFindHead(n).headToken

\* mutant: the X' child is listed as bar and again as complement
children_BarAndComplement(n) ==
    (IF IsNullNode(n.specifier) THEN <<>> ELSE <<n.specifier>>)
    \o (IF IsNullNode(n.complement) THEN <<>> ELSE <<n.complement, n.complement>>)
    \o n.adjuncts

\* XBarNode.children: specifier, complement, then the adjuncts
children(n) ==
    (IF IsNullNode(n.specifier) THEN <<>> ELSE <<n.specifier>>)
    \o (IF IsNullNode(n.complement) THEN <<>> ELSE <<n.complement>>)
    \o n.adjuncts

\* XBarNode.isComplete: a head node has a token; a bar has a token or a
\* complete bar as complement; a phrase has a complete bar as complement
RECURSIVE isComplete(_)
isComplete(n) ==
    CASE n.type = XBarLevel.X -> ~IsNullToken(n.headToken)
      [] n.type = XBarLevel.X_BAR ->
             IF ~IsNullToken(n.headToken) THEN TRUE
             ELSE IF ~IsNullNode(n.complement)
                  THEN IF n.complement.type = XBarLevel.X_BAR
                       THEN isComplete(n.complement)
                       ELSE ~IsNullToken(n.headToken)
                  ELSE FALSE
      [] n.type = XBarLevel.XP ->
             IF ~IsNullNode(n.complement) /\ n.complement.type = XBarLevel.X_BAR
             THEN isComplete(n.complement)
             ELSE FALSE
      [] OTHER -> FALSE

\* XBarNode.traverse in pre-order, as the sequence of visited nodes
RECURSIVE traverse(_)
RECURSIVE traverseAll(_)
traverse(n) ==
    <<n>> \o (IF IsNullNode(n.specifier) THEN <<>> ELSE traverse(n.specifier))
          \o (IF IsNullNode(n.complement) THEN <<>> ELSE traverse(n.complement))
          \o traverseAll(n.adjuncts)
traverseAll(ns) == IF ns = <<>> THEN <<>> ELSE traverse(Head(ns)) \o traverseAll(Tail(ns))

\* XBarNode.findByCategory
findByCategory(n, category) == SelectSeq(traverse(n), LAMBDA m : m.category = category)

(***************************************************************************)
(* parser/phrase-builder.js                                                *)
(***************************************************************************)
\* "not found" result of the find* helpers (JavaScript null)
NullInfo == [found |-> FALSE]

\* BuildResult {node, errors, consumedTokens}; threw marks an exception
\* raised inside the builder instead of a returned result
BuildResult(node, errors, consumed) ==
    [node |-> node, errors |-> errors, consumedTokens |-> consumed, threw |-> FALSE]

headPOSMap(phraseType) ==
    CASE phraseType = PhraseType.NP -> {POS.NOUN, POS.PRONOUN}
      [] phraseType = PhraseType.VP -> {POS.VERB}
      [] phraseType = PhraseType.AP -> {POS.ADJECTIVE}
      [] phraseType = PhraseType.PP -> {POS.PREPOSITION}
      [] phraseType = PhraseType.TP -> {POS.AUXILIARY, POS.COPULA}
      [] OTHER -> {}

\* rightmost token whose part of speech can head the phrase
RECURSIVE findHeadFrom(_, _, _)
findHeadFrom(tokens, i, validHeads) ==
    IF i < 1 THEN NullInfo
    ELSE IF tokens[i].pos \in validHeads
         THEN [found |-> TRUE, token |-> tokens[i], index |-> i]
         ELSE findHeadFrom(tokens, i - 1, validHeads)

findHead(tokens, phraseType) ==
    IF Len(tokens) = 0 THEN NullInfo
    ELSE findHeadFrom(tokens, Len(tokens), headPOSMap(phraseType))

\* POS.POSSESSIVE is not defined in core/types.js, so only DETERMINER counts
specifierPOSMap(phraseType) ==
    CASE phraseType = PhraseType.NP -> {POS.DETERMINER}
      [] phraseType = PhraseType.VP -> {POS.ADVERB}
      [] phraseType = PhraseType.AP -> {POS.ADVERB}
      [] OTHER -> {}

\* mutant: the scan ends at the first token that is not a specifier
RECURSIVE specifierLoop_StopAtFirst(_, _, _, _, _)
specifierLoop_StopAtFirst(tokens, i, headIndex, validSpecifiers, indices) ==
    IF i >= headIndex THEN indices
    ELSE IF tokens[i].pos \in validSpecifiers
         THEN specifierLoop_StopAtFirst(tokens, i + 1, headIndex, validSpecifiers, Append(indices, i))
         ELSE indices

\* the loop of findSpecifier: i runs over the tokens before the head,
\* collects specifier tokens and breaks at the first other token once
\* something has been collected
RECURSIVE specifierLoop(_, _, _, _, _)
specifierLoop(tokens, i, headIndex, validSpecifiers, indices) ==
    IF i >= headIndex THEN indices
    ELSE IF tokens[i].pos \in validSpecifiers
         THEN specifierLoop(tokens, i + 1, headIndex, validSpecifiers, Append(indices, i))
         ELSE IF Len(indices) > 0 THEN indices
              ELSE specifierLoop(tokens, i + 1, headIndex, validSpecifiers, indices)

findSpecifier(tokens, headIndex, phraseType) ==
    IF headIndex <= 1 THEN NullInfo
    ELSE LET indices == specifierLoop(tokens, 1, headIndex, specifierPOSMap(phraseType), <<>>)
         IN  IF Len(indices) = 0 THEN NullInfo
             ELSE [found |-> TRUE,
                   tokens |-> [k \in 1..Len(indices) |-> tokens[indices[k]]],
                   indices |-> indices]

\* range(start, end) on model indices: count indices following headIndex
range(headIndex, count) == [k \in 1..count |-> headIndex + k]

RECURSIVE buildNP(_)
RECURSIVE buildPP(_)

\* the while loop of findNP that skips adjectives
RECURSIVE skipAdjectives(_, _)
skipAdjectives(tokens, consumedCount) ==
    IF consumedCount < Len(tokens) /\ tokens[consumedCount + 1].pos = POS.ADJECTIVE
    THEN skipAdjectives(tokens, consumedCount + 1)
    ELSE consumedCount

\* the number of tokens findNP consumes, 0 when it finds no noun phrase:
\* (Det) (Adj)* N|Pron at the start of the run, else a bare N|Pron
findNPCount(tokens, consumedCount) ==
    IF consumedCount < Len(tokens)
       /\ tokens[consumedCount + 1].pos \in {POS.NOUN, POS.PRONOUN}
    THEN consumedCount + 1
    ELSE IF tokens[1].pos \in {POS.NOUN, POS.PRONOUN} THEN 1 ELSE 0

\* the result object of findNP for the first count tokens
findNPResult(tokens, count) ==
    IF count = 0 THEN NullInfo
    ELSE [found |-> TRUE, node |-> buildNP(SubSeq(tokens, 1, count)).node,
          consumedCount |-> count]

findNP(tokens) ==
    IF Len(tokens) = 0 THEN NullInfo
    ELSE findNPResult(tokens,
             findNPCount(tokens,
                 skipAdjectives(tokens, IF tokens[1].pos = POS.DETERMINER THEN 1 ELSE 0)))

\* the result object of findPP once the NP after the preposition was sought
\* (npResult); consumedCount counts the preposition and the tokens of npResult
findPPResult(tokens, npResult) ==
    [found |-> TRUE,
     node |-> buildPP(SubSeq(tokens, 1,
                  IF npResult.found THEN 1 + npResult.consumedCount ELSE 1)).node,
     consumedCount |-> IF npResult.found THEN 1 + npResult.consumedCount ELSE 1]

\* findPP: P followed by an optional NP
findPP(tokens) ==
    IF Len(tokens) = 0 THEN NullInfo
    ELSE IF tokens[1].pos # POS.PREPOSITION THEN NullInfo
    ELSE findPPResult(tokens, findNP(Tail(tokens)))

\* the ComplementInfo getComplementInfo returns for what findNP or findPP found
complementInfoOf(remainingTokens, headIndex, found) ==
    IF found.found /\ ~IsNullNode(found.node)
    THEN [found |-> TRUE,
          tokens |-> SubSeq(remainingTokens, 1, found.consumedCount),
          indices |-> range(headIndex, found.consumedCount),
          node |-> found.node]
    ELSE NullInfo

\* mutant: the complement of a noun phrase is sought with findNP
complementInfoIn_NounPhraseForNP(remainingTokens, headIndex, phraseType) ==
    IF Len(remainingTokens) = 0 THEN NullInfo
    ELSE complementInfoOf(remainingTokens, headIndex,
             IF phraseType \in {PhraseType.VP, PhraseType.PP, PhraseType.NP}
             THEN findNP(remainingTokens)
             ELSE IF phraseType \in {PhraseType.AP}
                  THEN findPP(remainingTokens)
                  ELSE NullInfo)

\* getComplementInfo on the tokens after the head
complementInfoIn(remainingTokens, headIndex, phraseType) ==
    IF Len(remainingTokens) = 0 THEN NullInfo
    ELSE complementInfoOf(remainingTokens, headIndex,
             IF phraseType \in {PhraseType.VP, PhraseType.PP}
             THEN findNP(remainingTokens)
             ELSE IF phraseType \in {PhraseType.AP, PhraseType.NP}
                  THEN findPP(remainingTokens)
                  ELSE NullInfo)

getComplementInfo(tokens, headIndex, phraseType) ==
    complementInfoIn(Slice(tokens, headIndex + 1, Len(tokens)), headIndex, phraseType)

findComplement(tokens, headIndex, phraseType) ==
    IF headIndex >= Len(tokens) THEN NullInfo
    ELSE getComplementInfo(tokens, headIndex, phraseType)

\* the four-way choice of XBarNode factory shared by buildNP and buildAP
assemble(headToken, category, specifierNode, complementNode) ==
    IF ~IsNullNode(specifierNode) /\ ~IsNullNode(complementNode)
    THEN \* XBarNode.createFullPhrase
         createPhrase(category,
             createBar(category, createHead(headToken, category), complementNode),
             specifierNode)
    ELSE IF ~IsNullNode(specifierNode)
         THEN \* XBarNode.createPhraseWithSpecifier
              createPhrase(category,
                  createBar(category, createHead(headToken, category), NullNode),
                  specifierNode)
         ELSE IF ~IsNullNode(complementNode)
              THEN createPhraseWithComplement(headToken, category, complementNode)
              ELSE createSimplePhrase(headToken, category)

\* buildNP once the head, the specifier and the complement have been sought
buildNPParts(tokens, headToken, headIndex, specifierInfo, complementInfo) ==
    LET specifierNode ==
            IF specifierInfo.found
            THEN setRole(createSimplePhrase(specifierInfo.tokens[1], PhraseType.DP),
                         SemanticRole.NONE)
            ELSE NullNode
        complementNode == IF complementInfo.found THEN complementInfo.node ELSE NullNode
        adjectiveTokens ==
            SelectSeq(Slice(tokens,
                            IF specifierInfo.found
                            THEN specifierInfo.indices[Len(specifierInfo.indices)] + 1
                            ELSE 1,
                            headIndex - 1),
                      LAMBDA t : t.pos = POS.ADJECTIVE)
        npNode == assemble(headToken, PhraseType.NP, specifierNode, complementNode)
        consumed ==
            (IF specifierInfo.found THEN <<specifierInfo.tokens[1]>> ELSE <<>>)
            \o adjectiveTokens \o <<headToken>>
            \o (IF complementInfo.found THEN complementInfo.tokens ELSE <<>>)
    IN  BuildResult(
            setRole([npNode EXCEPT !.adjuncts =
                        [k \in 1..Len(adjectiveTokens) |->
                            setRole(createSimplePhrase(adjectiveTokens[k], PhraseType.AP),
                                    SemanticRole.PROPERTY)]],
                    SemanticRole.NONE),
            <<>>, consumed)

\* buildNP from the result of findHead on
buildNPHead(tokens, headInfo) ==
    IF ~headInfo.found
    THEN BuildResult(NullNode, <<"No noun found for NP head">>, <<>>)
    ELSE buildNPParts(tokens, headInfo.token, headInfo.index,
                      findSpecifier(tokens, headInfo.index, PhraseType.NP),
                      findComplement(tokens, headInfo.index, PhraseType.NP))

buildNP(tokens) ==
    IF Len(tokens) = 0
    THEN BuildResult(NullNode, <<"No tokens provided for NP">>, <<>>)
    ELSE buildNPHead(tokens, findHead(tokens, PhraseType.NP))

\* buildVP: line 389 destructures from headToken, the very binding it
\* declares, which is still in its temporal dead zone: a ReferenceError is
\* raised as soon as a verb head has been found
buildVP(tokens) ==
    IF Len(tokens) = 0
    THEN BuildResult(NullNode, <<"No tokens provided for VP">>, <<>>)
    ELSE LET headInfo == findHead(tokens, PhraseType.VP)
         IN  IF ~headInfo.found
             THEN BuildResult(NullNode, <<"No verb found for VP head">>, <<>>)
             ELSE [BuildResult(NullNode, <<>>, <<>>) EXCEPT !.threw = TRUE]

\* buildAP once the head, the specifier and the complement have been sought
buildAPParts(headToken, specifierInfo, complementInfo) ==
    LET specifierNode ==
            IF specifierInfo.found
            THEN createSimplePhrase(specifierInfo.tokens[1], PhraseType.ADV_P)
            ELSE NullNode
        complementNode == IF complementInfo.found THEN complementInfo.node ELSE NullNode
        apNode == assemble(headToken, PhraseType.AP, specifierNode, complementNode)
        consumed ==
            (IF specifierInfo.found THEN <<specifierInfo.tokens[1]>> ELSE <<>>)
            \o <<headToken>>
            \o (IF complementInfo.found THEN complementInfo.tokens ELSE <<>>)
    IN  BuildResult(setRole(apNode, SemanticRole.PROPERTY), <<>>, consumed)

\* buildAP from the result of findHead on
buildAPHead(tokens, headInfo) ==
    IF ~headInfo.found
    THEN BuildResult(NullNode, <<"No adjective found for AP head">>, <<>>)
    ELSE buildAPParts(headInfo.token,
                      findSpecifier(tokens, headInfo.index, PhraseType.AP),
                      findComplement(tokens, headInfo.index, PhraseType.AP))

buildAP(tokens) ==
    IF Len(tokens) = 0
    THEN BuildResult(NullNode, <<"No tokens provided for AP">>, <<>>)
    ELSE buildAPHead(tokens, findHead(tokens, PhraseType.AP))

\* buildPP once the head and the complement have been sought
buildPPParts(headToken, complementInfo) ==
    LET ppNode ==
            IF complementInfo.found
            THEN createPhraseWithComplement(headToken, PhraseType.PP,
                     setRole(complementInfo.node, SemanticRole.LOCATION))
            ELSE createSimplePhrase(headToken, PhraseType.PP)
        consumed ==
            <<headToken>> \o (IF complementInfo.found THEN complementInfo.tokens ELSE <<>>)
    IN  BuildResult(setRole(ppNode, SemanticRole.LOCATION), <<>>, consumed)

\* buildPP from the result of findHead on
buildPPHead(tokens, headInfo) ==
    IF ~headInfo.found
    THEN BuildResult(NullNode, <<"No preposition found for PP head">>, <<>>)
    ELSE buildPPParts(headInfo.token, findComplement(tokens, headInfo.index, PhraseType.PP))

buildPP(tokens) ==
    IF Len(tokens) = 0
    THEN BuildResult(NullNode, <<"No tokens provided for PP">>, <<>>)
    ELSE buildPPHead(tokens, findHead(tokens, PhraseType.PP))

\* mutant: the tense marker is not stored on T'
buildTP_NoTenseMarker(subjectNP, predicate, tenseMarker) ==
    LET tBar == [XBarNode(XBarLevel.X_BAR, PhraseType.TP, NullToken, NullNode, NullNode, <<>>)
                    EXCEPT !.complement = predicate]
        subject == IF IsNullNode(subjectNP) THEN NullNode
                   ELSE setRole(subjectNP, SemanticRole.AGENT)
    IN  setRole(XBarNode(XBarLevel.XP, PhraseType.TP, NullToken, tBar, subject, <<>>),
                SemanticRole.NONE)

\* buildTP(subjectNP, predicate, tenseMarker): T' holds the predicate as
\* complement and the copula as head token; TP holds the subject as specifier
buildTP(subjectNP, predicate, tenseMarker) ==
    LET tBar == [XBarNode(XBarLevel.X_BAR, PhraseType.TP, NullToken, NullNode, NullNode, <<>>)
                    EXCEPT !.complement = predicate, !.headToken = tenseMarker]
        subject == IF IsNullNode(subjectNP) THEN NullNode
                   ELSE setRole(subjectNP, SemanticRole.AGENT)
    IN  setRole(XBarNode(XBarLevel.XP, PhraseType.TP, NullToken, tBar, subject, <<>>),
                SemanticRole.NONE)

(***************************************************************************)
(* parser/patterns.js                                                      *)
(***************************************************************************)
\* index of the first token with part of speech p, 0 when there is none
\* (the "for ... break" loops and findIndex; source -1 is model 0)
RECURSIVE firstIndexFrom(_, _, _)
firstIndexFrom(tokens, i, p) ==
    IF i > Len(tokens) THEN 0
    ELSE IF tokens[i].pos = p THEN i
    ELSE firstIndexFrom(tokens, i + 1, p)

firstIndex(tokens, p) == firstIndexFrom(tokens, 1, p)

\* index of the last token with part of speech p, 0 when there is none
\* (a loop that keeps overwriting its index and never breaks)
RECURSIVE lastIndexFrom(_, _, _)
lastIndexFrom(tokens, i, p) ==
    IF i < 1 THEN 0
    ELSE IF tokens[i].pos = p THEN i
    ELSE lastIndexFrom(tokens, i - 1, p)

hasPOS(tokens, ps) == \E i \in 1..Len(tokens) : tokens[i].pos \in ps

\* ACTION_PATTERN.match
ActionMatch(tokens) ==
    /\ Len(tokens) >= 2
    /\ hasPOS(tokens, {POS.NOUN, POS.PRONOUN, POS.DETERMINER})
    /\ hasPOS(tokens, {POS.VERB})
    /\ tokens[1].pos # POS.VERB

\* mutant: the first copula is compared with the first adjective
PropertyMatch_FirstCopula(tokens) ==
    /\ Len(tokens) >= 3
    /\ hasPOS(tokens, {POS.COPULA})
    /\ hasPOS(tokens, {POS.ADJECTIVE})
    /\ firstIndex(tokens, POS.COPULA) < firstIndex(tokens, POS.ADJECTIVE)

\* PROPERTY_PATTERN.match: copulaIndex is overwritten by every copula, so
\* it ends as the index of the last one; adjIndex is the first adjective
PropertyMatch(tokens) ==
    /\ Len(tokens) >= 3
    /\ hasPOS(tokens, {POS.COPULA})
    /\ hasPOS(tokens, {POS.ADJECTIVE})
    /\ lastIndexFrom(tokens, Len(tokens), POS.COPULA) < firstIndex(tokens, POS.ADJECTIVE)

\* IDENTITY_PATTERN.match
IdentityMatch(tokens) ==
    LET copulaIndex == firstIndex(tokens, POS.COPULA)
        afterCopula == Slice(tokens, copulaIndex + 1, Len(tokens))
    IN  /\ Len(tokens) >= 3
        /\ copulaIndex # 0
        /\ copulaIndex < Len(tokens)
        /\ hasPOS(afterCopula, {POS.NOUN, POS.PRONOUN})
        /\ ~hasPOS(afterCopula, {POS.ADJECTIVE})

\* LOCATION_PATTERN.match
LocationMatch(tokens) ==
    LET copulaIndex == firstIndex(tokens, POS.COPULA)
    IN  /\ Len(tokens) >= 3
        /\ copulaIndex # 0
        /\ copulaIndex < Len(tokens)
        /\ tokens[copulaIndex + 1].pos = POS.PREPOSITION

\* extractComponents of the four patterns: split at the first verb (Action)
\* or the first copula; rest is the run after the split token, named
\* object / predicate / object / location by the four patterns
Components(tokens, splitPOS, message) ==
    LET splitIndex == firstIndex(tokens, splitPOS)
    IN  IF splitIndex = 0
        THEN [error |-> message]
        ELSE [error |-> "none",
              subject |-> Slice(tokens, 1, splitIndex - 1),
              split |-> tokens[splitIndex],
              rest |-> Slice(tokens, splitIndex + 1, Len(tokens))]

\* result of a buildTree call: the tree (NullNode for null), or an exception
TreeResult(tree) == [tree |-> tree, threw |-> FALSE]

\* the tree ACTION_PATTERN.buildTree returns for its two build results: null
\* without a subject node, before buildVP is called
actionTreeFrom(subjectResult, vpResult) ==
    IF IsNullNode(subjectResult.node) THEN TreeResult(NullNode)
    ELSE IF vpResult.threw THEN [TreeResult(NullNode) EXCEPT !.threw = TRUE]
    ELSE IF IsNullNode(vpResult.node) THEN TreeResult(NullNode)
    ELSE TreeResult(buildTP(subjectResult.node, vpResult.node, NullToken))

\* ACTION_PATTERN.buildTree: vpTokens is the verb followed by the object run
ActionBuildTree(components) ==
    actionTreeFrom(buildNP(components.subject),
                   buildVP(<<components.split>> \o components.rest))

\* the tree a copular pattern returns for its two build results
copularTreeFrom(subjectResult, predicateResult, copula) ==
    IF IsNullNode(subjectResult.node) THEN TreeResult(NullNode)
    ELSE IF IsNullNode(predicateResult.node) THEN TreeResult(NullNode)
    ELSE TreeResult(buildTP(subjectResult.node, predicateResult.node, copula))

\* the buildTree of the three copular patterns: subject NP, then the
\* predicate phrase, then buildTP with the copula as tense marker
CopularBuildTree(components, predicateResult) ==
    copularTreeFrom(buildNP(components.subject), predicateResult, components.split)

\* mutant: the predicate is built as a prepositional phrase, as Location does
PropertyBuildTree_AsPP(components) == CopularBuildTree(components, buildPP(components.rest))


PropertyBuildTree(components) == CopularBuildTree(components, buildAP(components.rest))

\* mutant: Location is tried before Property
SENTENCE_PATTERNS_LocationFirst == <<"Location", "Property", "Identity", "Action">>

\* SENTENCE_PATTERNS: the order in which matchPattern tries the patterns
SENTENCE_PATTERNS == <<"Property", "Identity", "Location", "Action">>

\* pattern.match / pattern.extractComponents / pattern.buildTree /
\* pattern.predicateType, dispatched on the pattern object
PatternMatch(name, tokens) ==
    CASE name = "Property" -> PropertyMatch(tokens)
      [] name = "Identity" -> IdentityMatch(tokens)
      [] name = "Location" -> LocationMatch(tokens)
      [] name = "Action" -> ActionMatch(tokens)

PatternExtractComponents(name, tokens) ==
    CASE name = "Property" -> Components(tokens, POS.COPULA, "No copula found in property pattern")
      [] name = "Identity" -> Components(tokens, POS.COPULA, "No copula found in identity pattern")
      [] name = "Location" -> Components(tokens, POS.COPULA, "No copula found in location pattern")
      [] name = "Action" -> Components(tokens, POS.VERB, "No verb found in action pattern")

PatternBuildTree(name, components) ==
    CASE name = "Property" -> PropertyBuildTree(components)
      [] name = "Identity" -> CopularBuildTree(components, buildNP(components.rest))
      [] name = "Location" -> CopularBuildTree(components, buildPP(components.rest))
      [] name = "Action" -> ActionBuildTree(components)

\* getPredicateType(pattern)
getPredicateType(name) ==
    CASE name = "Property" -> PredicateType.HAS_PROPERTY
      [] name = "Identity" -> PredicateType.IS_A
      [] name = "Location" -> PredicateType.IS_LOCATED
      [] name = "Action" -> PredicateType.DOES
      [] OTHER -> PredicateType.UNKNOWN

(***************************************************************************)
(* semantic/meaning.js                                                     *)
(***************************************************************************)
NullEntity == [text |-> "null"]

IsNullEntity(e) == e.text = "null"

NullPredicate == [type |-> "null"]

IsNullPredicate(p) == p.type = "null"

NullMeaning == [type |-> "null"]

IsNullMeaning(m) == m.type = "null"

\* new Entity({text, lemma, categories, features}); id is what generateId
\* returned; modifiers is features.modifiers (empty while unset)
Entity(id, text, lemma, categories, features) ==
    [id |-> id, text |-> text,
     lemma |-> IF lemma # "none" THEN lemma ELSE toLowerCase(text),
     categories |-> categories, features |-> features, modifiers |-> <<>>,
     determiner |-> "none"]

\* new Predicate({text, lemma, type, features}); degree is features.degree
Predicate(text, lemma, type, features) ==
    [text |-> text,
     lemma |-> IF lemma # "none" THEN lemma ELSE toLowerCase(text),
     type |-> type, features |-> features, degree |-> "none", negated |-> FALSE]

\* new MeaningRepresentation({type}); args is the Map of role to entity in
\* insertion order; tense and modifiers are the sentence features
MeaningRepresentation(type) ==
    [type |-> type, predicate |-> NullPredicate, args |-> <<>>,
     tense |-> "none", modifiers |-> <<>>, confidence |-> 1]

hasArgument(meaning, role) == \E i \in 1..Len(meaning.args) : meaning.args[i].role = role

\* MeaningRepresentation.getArgument
getArgument(meaning, role) ==
    IF hasArgument(meaning, role)
    THEN (meaning.args[CHOOSE i \in 1..Len(meaning.args) : meaning.args[i].role = role]).entity
    ELSE NullEntity

\* MeaningRepresentation.setArgument: Map.set keeps the place of an existing key
setArgument(meaning, role, entity) ==
    IF hasArgument(meaning, role)
    THEN [meaning EXCEPT !.args = [i \in 1..Len(meaning.args) |->
              IF meaning.args[i].role = role
              THEN [role |-> role, entity |-> entity] ELSE meaning.args[i]]]
    ELSE [meaning EXCEPT !.args = Append(meaning.args, [role |-> role, entity |-> entity])]

\* meaning.args.delete(role)
deleteArgument(meaning, role) ==
    [meaning EXCEPT !.args = SelectSeq(meaning.args, LAMBDA a : a.role # role)]

\* MeaningRepresentation.getSubject: the AGENT, else the THEME
getSubject(meaning) ==
    IF hasArgument(meaning, SemanticRole.AGENT) THEN getArgument(meaning, SemanticRole.AGENT)
    ELSE IF hasArgument(meaning, SemanticRole.THEME) THEN getArgument(meaning, SemanticRole.THEME)
    ELSE NullEntity

\* MeaningRepresentation.getAllEntities
getAllEntities(meaning) == [i \in 1..Len(meaning.args) |-> meaning.args[i].entity]

(***************************************************************************)
(* semantic/extractor.js.  ids[k] is the id generateId gives to the k-th   *)
(* entity of one extraction.                                               *)
(***************************************************************************)
\* texts of the AP adjuncts that have a head token
RECURSIVE adjunctModifiers(_)
adjunctModifiers(adjuncts) ==
    IF adjuncts = <<>> THEN <<>>
    ELSE LET adjunct == Head(adjuncts)
             adjToken == getHeadToken(adjunct)
         IN  (IF adjunct.category = PhraseType.AP /\ ~IsNullToken(adjToken)
              THEN <<adjToken.text>> ELSE <<>>)
             \o adjunctModifiers(Tail(adjuncts))

extractFromNP(node, id) ==
    IF IsNullNode(node) THEN NullEntity
    ELSE LET headToken == getHeadToken(node)
         IN  IF IsNullToken(headToken) THEN NullEntity
             ELSE LET entity == Entity(id, headToken.text, getEffectiveLemma(headToken),
                                       headToken.cats, headToken.features)
                      detToken == IF IsNullNode(node.specifier) THEN NullToken
                                  ELSE getHeadToken(node.specifier)
                  IN  [entity EXCEPT
                          !.determiner = IF detToken.pos = POS.DETERMINER
                                         THEN detToken.text ELSE "none",
                          !.modifiers = adjunctModifiers(node.adjuncts)]

\* the role a PP adjunct's preposition maps to
prepositionRole(prep) ==
    CASE prep \in {"to", "toward"} -> SemanticRole.GOAL
      [] prep \in {"from", "away"} -> SemanticRole.SOURCE
      [] prep \in {"with", "using"} -> SemanticRole.INSTRUMENT
      [] prep \in {"for"} -> SemanticRole.RECIPIENT
      [] OTHER -> SemanticRole.LOCATION

extractAdjunct(node, meaning, id) ==
    LET headToken == getHeadToken(node)
    IN  IF node.category = PhraseType.PP
        THEN IF ~IsNullToken(headToken) /\ ~IsNullNode(node.complement)
             THEN LET ppObject == extractFromNP(node.complement, id)
                  IN  IF IsNullEntity(ppObject) THEN meaning
                      ELSE setArgument(meaning, prepositionRole(toLowerCase(headToken.text)), ppObject)
             ELSE meaning
        ELSE IF node.category = PhraseType.ADV_P /\ ~IsNullToken(headToken)
             THEN [meaning EXCEPT !.modifiers = Append(@, headToken.text)]
             ELSE meaning

\* the adjunct loop of extractFromVP; the k-th adjunct entity gets ids[2 + k]
RECURSIVE extractAdjuncts(_, _, _, _)
extractAdjuncts(adjuncts, k, meaning, ids) ==
    IF k > Len(adjuncts) THEN meaning
    ELSE extractAdjuncts(adjuncts, k + 1,
             extractAdjunct(adjuncts[k], meaning, ids[((1 + k) % Len(ids)) + 1]), ids)

\* extractFromVP reads node.complement of the VP itself, which is its V'
extractFromVP(node, meaning, ids) ==
    LET headToken == getHeadToken(node)
    IN  IF IsNullToken(headToken) THEN meaning
        ELSE LET predicate == Predicate(headToken.text, getEffectiveLemma(headToken),
                                        PredicateType.DOES, headToken.features)
                 withPredicate == [meaning EXCEPT !.predicate = predicate]
                 objectEntity == extractFromNP(node.complement, ids[2])
                 withObject == IF ~IsNullNode(node.complement) /\ ~IsNullEntity(objectEntity)
                               THEN setArgument(withPredicate, SemanticRole.PATIENT, objectEntity)
                               ELSE withPredicate
             IN  extractAdjuncts(node.adjuncts, 1, withObject, ids)

extractFromAP(node, meaning) ==
    LET headToken == getHeadToken(node)
    IN  IF IsNullToken(headToken) THEN meaning
        ELSE LET predicate == Predicate(headToken.text, getEffectiveLemma(headToken),
                                        PredicateType.HAS_PROPERTY, headToken.features)
                 degreeToken == IF IsNullNode(node.specifier) THEN NullToken
                                ELSE getHeadToken(node.specifier)
             IN  [meaning EXCEPT !.predicate =
                     IF degreeToken.pos = POS.ADVERB
                     THEN [predicate EXCEPT !.degree = degreeToken.text]
                     ELSE predicate]

extractIdentityPredicate(node, meaning, ids) ==
    LET headToken == getHeadToken(node)
    IN  IF IsNullToken(headToken) THEN meaning
        ELSE LET predicate == Predicate(headToken.text, getEffectiveLemma(headToken),
                                        PredicateType.IS_A, headToken.features)
                 valueEntity == extractFromNP(node, ids[2])
                 withPredicate == [meaning EXCEPT !.predicate = predicate]
             IN  IF IsNullEntity(valueEntity) THEN withPredicate
                 ELSE setArgument(withPredicate, SemanticRole.PROPERTY, valueEntity)

\* extractFromTBar: tense from the copula, then dispatch on the category of
\* the complement (VP, AP, NP; any other category is left alone)
extractFromTBar(node, meaning, ids) ==
    LET withTense ==
            IF IsNullToken(node.headToken) THEN meaning
            ELSE [meaning EXCEPT !.tense =
                     IF node.headToken.features.tense # "none"
                     THEN node.headToken.features.tense ELSE "PRESENT"]
    IN  IF IsNullNode(node.complement) THEN withTense
        ELSE IF node.complement.category = PhraseType.VP
             THEN extractFromVP(node.complement, withTense, ids)
        ELSE IF node.complement.category = PhraseType.AP
             THEN extractFromAP(node.complement, withTense)
        ELSE IF node.complement.category = PhraseType.NP
             THEN extractIdentityPredicate(node.complement, withTense, ids)
        ELSE withTense

\* mutant: AGENT is set without deleting THEME
assignRoles_KeepTheme(meaning) ==
    IF IsNullPredicate(meaning.predicate) THEN meaning
    ELSE IF meaning.predicate.type = PredicateType.DOES
              /\ ~IsNullEntity(getArgument(meaning, SemanticRole.THEME))
         THEN setArgument(meaning, SemanticRole.AGENT, getArgument(meaning, SemanticRole.THEME))
         ELSE meaning

\* assignRoles: for a DOES predicate the THEME entry is deleted and set
\* again under AGENT
assignRoles(meaning) ==
    IF IsNullPredicate(meaning.predicate) THEN meaning
    ELSE IF meaning.predicate.type = PredicateType.DOES
              /\ ~IsNullEntity(getArgument(meaning, SemanticRole.THEME))
         THEN setArgument(deleteArgument(meaning, SemanticRole.THEME), SemanticRole.AGENT,
                          getArgument(meaning, SemanticRole.THEME))
         ELSE meaning

extractFromTP(node, ids) ==
    LET meaning == MeaningRepresentation(SentenceType.DECLARATIVE)
        subjectEntity == extractFromNP(node.specifier, ids[1])
        withSubject == IF ~IsNullNode(node.specifier) /\ ~IsNullEntity(subjectEntity)
                       THEN setArgument(meaning, SemanticRole.THEME, subjectEntity)
                       ELSE meaning
        withPredicate == IF IsNullNode(node.complement) THEN withSubject
                         ELSE extractFromTBar(node.complement, withSubject, ids)
    IN  assignRoles(withPredicate)

\* mutant: a tree whose root is not a TP is not searched
extract_RootOnly(tree, ids) ==
    IF IsNullNode(tree) THEN NullMeaning
    ELSE IF tree.category # PhraseType.TP THEN NullMeaning
    ELSE extractFromTP(tree, ids)

\* SemanticExtractor.extract
extract(tree, ids) ==
    IF IsNullNode(tree) THEN NullMeaning
    ELSE IF tree.category # PhraseType.TP
         THEN LET tpNodes == findByCategory(tree, PhraseType.TP)
              IN  IF Len(tpNodes) > 0 THEN extractFromTP(tpNodes[1], ids) ELSE NullMeaning
         ELSE extractFromTP(tree, ids)

(***************************************************************************)
(* semantic/validator.js.  A validation message is its type and its code.  *)
(***************************************************************************)
SELECTIONAL_RESTRICTIONS ==
    [animate_subject |-> {"think", "believe", "know", "feel", "love", "hate",
                          "want", "need", "say", "tell", "ask"},
     animate_object |-> {"love", "hate", "tell", "ask", "persuade", "convince"},
     inanimate_object |-> {"build", "construct", "destroy", "break", "fix"},
     animate_categories |-> {"person", "animal", "being"},
     inanimate_categories |-> {"object", "place", "substance", "abstract"}]

error(code) == [type |-> "error", code |-> code]

warning(code) == [type |-> "warning", code |-> code]

\* NLPAnalyzer's options: the validator it constructs gets strictMode only,
\* validate says whether analyze calls the validator at all
AnalyzerOptions(strictMode, validateOption) ==
    [strictMode |-> strictMode, checkSelectionalRestrictions |-> TRUE,
     checkAgreement |-> TRUE, validate |-> validateOption]

\* mutant: a missing subject is a warning in strict mode too
checkRequiredComponents_AlwaysWarning(meaning, options) ==
    LET noSubject == IsNullEntity(getSubject(meaning))
    IN  [errors |-> (IF IsNullPredicate(meaning.predicate)
                     THEN <<error("MISSING_PREDICATE")>> ELSE <<>>),
         warnings |-> (IF noSubject THEN <<warning("MISSING_SUBJECT")>> ELSE <<>>)
                      \o (IF Len(meaning.args) = 0
                          THEN <<warning("NO_ARGUMENTS")>> ELSE <<>>)]

\* checkRequiredComponents: the messages it pushes, as [errors, warnings]
checkRequiredComponents(meaning, options) ==
    LET noSubject == IsNullEntity(getSubject(meaning))
    IN  [errors |-> (IF IsNullPredicate(meaning.predicate)
                     THEN <<error("MISSING_PREDICATE")>> ELSE <<>>)
                    \o (IF noSubject /\ options.strictMode
                        THEN <<error("MISSING_SUBJECT")>> ELSE <<>>),
         warnings |-> (IF noSubject /\ ~options.strictMode
                       THEN <<warning("MISSING_SUBJECT")>> ELSE <<>>)
                      \o (IF Len(meaning.args) = 0
                          THEN <<warning("NO_ARGUMENTS")>> ELSE <<>>)]

\* Predicate.isTransitive
isTransitive(predicate) == predicate.features.transitive = TRUE

\* checkPredicateArgumentStructure: the warnings it pushes
checkPredicateArgumentStructure(meaning) ==
    LET absent(role) == IsNullEntity(getArgument(meaning, role))
    IN  IF IsNullPredicate(meaning.predicate) THEN <<>>
        ELSE CASE meaning.predicate.type = PredicateType.DOES ->
                      (IF absent(SemanticRole.AGENT) /\ absent(SemanticRole.THEME)
                       THEN <<warning("MISSING_AGENT")>> ELSE <<>>)
                      \o (IF isTransitive(meaning.predicate) /\ absent(SemanticRole.PATIENT)
                          THEN <<warning("MISSING_PATIENT")>> ELSE <<>>)
               [] meaning.predicate.type = PredicateType.HAS_PROPERTY ->
                      IF absent(SemanticRole.THEME) THEN <<warning("MISSING_THEME")>> ELSE <<>>
               [] meaning.predicate.type = PredicateType.IS_A ->
                      (IF absent(SemanticRole.THEME) THEN <<warning("MISSING_THEME")>> ELSE <<>>)
                      \o (IF absent(SemanticRole.PROPERTY)
                          THEN <<warning("MISSING_VALUE")>> ELSE <<>>)
               [] OTHER -> <<>>

\* checkSelectionalRestrictions: result.valid
checkSelectionalRestrictions(predicate, argument, role) ==
    LET predicateLemma == toLowerCase(predicate.lemma)
        categories == argument.categories
        isAnimate == categories \cap SELECTIONAL_RESTRICTIONS.animate_categories # {}
        isInanimate == categories \cap SELECTIONAL_RESTRICTIONS.inanimate_categories # {}
    IN  IF role \in {SemanticRole.AGENT, SemanticRole.THEME}
           /\ predicateLemma \in SELECTIONAL_RESTRICTIONS.animate_subject
           /\ ~isAnimate /\ categories # {}
        THEN FALSE
        ELSE IF role = SemanticRole.PATIENT
                /\ predicateLemma \in SELECTIONAL_RESTRICTIONS.animate_object
                /\ ~isAnimate /\ categories # {}
        THEN FALSE
        ELSE IF role = SemanticRole.PATIENT
                /\ predicateLemma \in SELECTIONAL_RESTRICTIONS.inanimate_object
                /\ isAnimate /\ ~isInanimate
        THEN FALSE
        ELSE TRUE

\* checkAllSelectionalRestrictions: the warnings it pushes
checkAllSelectionalRestrictions(meaning) ==
    LET agent == getArgument(meaning, SemanticRole.AGENT)
        theme == getArgument(meaning, SemanticRole.THEME)
        subject == IF ~IsNullEntity(agent) THEN agent ELSE theme
        patient == getArgument(meaning, SemanticRole.PATIENT)
    IN  IF IsNullPredicate(meaning.predicate) THEN <<>>
        ELSE (IF ~IsNullEntity(subject)
                 /\ ~checkSelectionalRestrictions(meaning.predicate, subject, SemanticRole.AGENT)
              THEN <<warning("SELECTIONAL_VIOLATION")>> ELSE <<>>)
             \o (IF ~IsNullEntity(patient)
                    /\ ~checkSelectionalRestrictions(meaning.predicate, patient, SemanticRole.PATIENT)
                 THEN <<warning("SELECTIONAL_VIOLATION")>> ELSE <<>>)

\* checkAgreement: line 372 reads the subject's number with Entity.getFeature,
\* line 373 calls predicate.getFeature, a method the Predicate class does not
\* have: the call raises a TypeError and the comparisons after it never run
checkAgreement(subject, predicate) == [threw |-> TRUE]

\* checkAllAgreement: the errors it pushes; it returns early without a
\* subject or without a predicate, else it calls checkAgreement
checkAllAgreement(meaning) ==
    LET subject == getSubject(meaning)
    IN  IF IsNullEntity(subject) \/ IsNullPredicate(meaning.predicate)
        THEN [errors |-> <<>>, threw |-> FALSE]
        ELSE [errors |-> <<>>, threw |-> checkAgreement(subject, meaning.predicate).threw]

\* checkSemanticConsistency: the warnings it pushes
checkSemanticConsistency(meaning) ==
    LET entities == getAllEntities(meaning)
        seenBefore(i) == \E j \in 1..(i - 1) :
                             toLowerCase(entities[j].text) = toLowerCase(entities[i].text)
        flags(test(_), code) ==
            [i \in 1..Len(entities) |-> IF test(i) THEN code ELSE "none"]
        pushed(test(_), code) ==
            [i \in 1..Len(SelectSeq(flags(test, code), LAMBDA c : c # "none")) |-> warning(code)]
        uncategorised(i) == entities[i].categories = {}
    IN  pushed(seenBefore, "DUPLICATE_ENTITY")
        \o (IF ~IsNullPredicate(meaning.predicate) /\ meaning.predicate.negated
               /\ meaning.predicate.text \in {}  \* no lexicon word matches /^(un|dis|non|in|im)/i
            THEN <<warning("DOUBLE_NEGATION")>> ELSE <<>>)
        \o pushed(uncategorised, "UNKNOWN_CATEGORY")

NullValidation == [isValid |-> "unset"]

\* mutant: a warning makes the result invalid as an error does
validationResult_WarningsCount(meaning, errors, warnings) ==
    [isValid |-> Len(errors) = 0 /\ Len(warnings) = 0, errors |-> errors,
     warnings |-> warnings,
     details |-> [entityCount |-> Len(getAllEntities(meaning)),
                  hasPredicate |-> ~IsNullPredicate(meaning.predicate),
                  predicateType |-> meaning.predicate.type],
     threw |-> FALSE]

\* the result validate returns once every check has run
validationResult(meaning, errors, warnings) ==
    [isValid |-> Len(errors) = 0, errors |-> errors, warnings |-> warnings,
     details |-> [entityCount |-> Len(getAllEntities(meaning)),
                  hasPredicate |-> ~IsNullPredicate(meaning.predicate),
                  predicateType |-> meaning.predicate.type],
     threw |-> FALSE]

\* validate after checkRequiredComponents, given what the agreement check did
validateChecked(meaning, options, required, agreement) ==
    IF agreement.threw THEN [isValid |-> "none", threw |-> TRUE]
    ELSE validationResult(meaning,
             required.errors \o agreement.errors,
             required.warnings
                 \o checkPredicateArgumentStructure(meaning)
                 \o (IF options.checkSelectionalRestrictions
                     THEN checkAllSelectionalRestrictions(meaning) ELSE <<>>)
                 \o checkSemanticConsistency(meaning))

\* SemanticValidator.validate
validate(meaning, options) ==
    IF IsNullMeaning(meaning)
    THEN [isValid |-> FALSE, errors |-> <<error("NULL_MEANING")>>, warnings |-> <<>>,
          details |-> "null", threw |-> FALSE]
    ELSE validateChecked(meaning, options, checkRequiredComponents(meaning, options),
             IF options.checkAgreement THEN checkAllAgreement(meaning)
             ELSE [errors |-> <<>>, threw |-> FALSE])

(***************************************************************************)
(* Serialization: toJSON and fromJSON of tokens, nodes, entities,          *)
(* predicates and meanings.  A key that toJSON leaves out, or whose value  *)
(* is null, is the Absent record.                                          *)
(***************************************************************************)
AbsentNode == [type |-> "absent"]

\* Token.toJSON: text, normalized, lemma, pos, features, position; the
\* lexical entry is not among the serialized fields
TokenToJSON(t) ==
    [text |-> t.text, normalized |-> toLowerCase(t.text), lemma |-> t.lemma,
     pos |-> t.pos, features |-> t.features, position |-> t.position]

\* Token.fromJSON: the constructor leaves lexicalEntry null
TokenFromJSON(obj) ==
    [text |-> obj.text, pos |-> obj.pos, lemma |-> obj.lemma, features |-> obj.features,
     cats |-> {}, position |-> obj.position]

getHeadCategory(phraseType) ==
    CASE phraseType = PhraseType.NP -> "N"
      [] phraseType = PhraseType.VP -> "V"
      [] phraseType = PhraseType.AP -> "A"
      [] phraseType = PhraseType.ADV_P -> "Adv"
      [] phraseType = PhraseType.PP -> "P"
      [] phraseType = PhraseType.TP -> "T"
      [] phraseType = PhraseType.CP -> "C"
      [] phraseType = PhraseType.DP -> "D"
      [] OTHER -> "?"

\* XBarNode.getLabel; the label of an X' is its head category and a prime
getLabel(n) ==
    CASE n.type = XBarLevel.X ->
             [text |-> IF ~IsNullToken(n.headToken) THEN n.headToken.text
                       ELSE getHeadCategory(n.category), prime |-> FALSE]
      [] n.type = XBarLevel.X_BAR -> [text |-> getHeadCategory(n.category), prime |-> TRUE]
      [] n.type = XBarLevel.XP -> [text |-> n.category, prime |-> FALSE]
      [] OTHER -> [text |-> "?", prime |-> FALSE]

\* XBarNode.toJSON; semantic is {} exactly when the role is "unset"
RECURSIVE XBarNodeToJSON(_)
XBarNodeToJSON(n) ==
    [type |-> n.type, category |-> n.category, label |-> getLabel(n),
     headToken |-> IF IsNullToken(n.headToken) THEN [pos |-> "absent"] ELSE TokenToJSON(n.headToken),
     specifier |-> IF IsNullNode(n.specifier) THEN AbsentNode ELSE XBarNodeToJSON(n.specifier),
     complement |-> IF IsNullNode(n.complement) THEN AbsentNode ELSE XBarNodeToJSON(n.complement),
     adjuncts |-> [i \in 1..Len(n.adjuncts) |-> XBarNodeToJSON(n.adjuncts[i])],
     semantic |-> n.role]

\* XBarNode.fromJSON
RECURSIVE XBarNodeFromJSON(_)
XBarNodeFromJSON(json) ==
    [type |-> json.type, category |-> json.category,
     headToken |-> IF json.headToken = [pos |-> "absent"] THEN NullToken
                   ELSE TokenFromJSON(json.headToken),
     complement |-> IF json.complement = AbsentNode THEN NullNode
                    ELSE XBarNodeFromJSON(json.complement),
     specifier |-> IF json.specifier = AbsentNode THEN NullNode
                   ELSE XBarNodeFromJSON(json.specifier),
     adjuncts |-> [i \in 1..Len(json.adjuncts) |-> XBarNodeFromJSON(json.adjuncts[i])],
     role |-> json.semantic]

\* Entity.toJSON; the modifiers are one of the features
EntityToJSON(e) ==
    [id |-> e.id, text |-> e.text, lemma |-> e.lemma, categories |-> e.categories,
     features |-> [features |-> e.features, modifiers |-> e.modifiers],
     determiner |-> e.determiner]

\* Predicate.toJSON; the degree is one of the features
PredicateToJSON(p) ==
    IF IsNullPredicate(p) THEN p
    ELSE [text |-> p.text, lemma |-> p.lemma, type |-> p.type,
          features |-> [features |-> p.features, degree |-> p.degree],
          negated |-> p.negated]

\* MeaningRepresentation.toJSON: arguments keeps the insertion order of args
MeaningToJSON(m) ==
    [type |-> m.type, predicate |-> PredicateToJSON(m.predicate),
     arguments |-> [i \in 1..Len(m.args) |->
                      [role |-> m.args[i].role, entity |-> EntityToJSON(m.args[i].entity)]],
     features |-> [tense |-> m.tense, modifiers |-> m.modifiers],
     confidence |-> m.confidence]

(***************************************************************************)
(* parser/patterns.js: matchPattern.  An error string "<name>: <message>"  *)
(* is the record of its pattern name and message.  evaluated lists the     *)
(* patterns whose match function was called, in call order.                *)
(***************************************************************************)
patternError(name, message) == [pattern |-> name, message |-> message]

MatchReturn(pattern, tree, errs, evaluated) ==
    [pattern |-> pattern, tree |-> tree, errors |-> errs, evaluated |-> evaluated,
     threw |-> FALSE]

RECURSIVE matchLoop(_, _, _, _)

\* one iteration after buildTree: return the tree, or record the failure
matchBuilt(tokens, i, errors, evaluated, built) ==
    IF built.threw THEN [MatchReturn("null", NullNode, <<>>, evaluated) EXCEPT !.threw = TRUE]
    ELSE IF ~IsNullNode(built.tree)
         THEN MatchReturn(SENTENCE_PATTERNS[i], built.tree, <<>>, evaluated)
         ELSE matchLoop(tokens, i + 1,
                  Append(errors, patternError(SENTENCE_PATTERNS[i], "Failed to build tree")),
                  evaluated)

\* one iteration after extractComponents: record its error, or build
matchExtracted(tokens, i, errors, evaluated, components) ==
    IF components.error # "none"
    THEN matchLoop(tokens, i + 1,
             Append(errors, patternError(SENTENCE_PATTERNS[i], components.error)), evaluated)
    ELSE matchBuilt(tokens, i, errors, evaluated,
                    PatternBuildTree(SENTENCE_PATTERNS[i], components))

\* the for loop of matchPattern from the i-th pattern on
matchLoop(tokens, i, errors, evaluated) ==
    IF i > Len(SENTENCE_PATTERNS)
    THEN MatchReturn("null", NullNode,
                     IF Len(errors) > 0 THEN errors
                     ELSE <<patternError("none", "No matching pattern found")>>,
                     evaluated)
    ELSE IF ~PatternMatch(SENTENCE_PATTERNS[i], tokens)
         THEN matchLoop(tokens, i + 1, errors, Append(evaluated, SENTENCE_PATTERNS[i]))
         ELSE matchExtracted(tokens, i, errors, Append(evaluated, SENTENCE_PATTERNS[i]),
                             PatternExtractComponents(SENTENCE_PATTERNS[i], tokens))

matchPattern(tokens) ==
    IF Len(tokens) = 0
    THEN MatchReturn("null", NullNode,
                     <<patternError("none", "No tokens provided for pattern matching")>>, <<>>)
    ELSE matchLoop(tokens, 1, <<>>, <<>>)

\* getSentenceType(pattern): the four patterns are declarative
getSentenceType(name) ==
    IF name = "null" THEN SentenceType.UNKNOWN ELSE SentenceType.DECLARATIVE

(***************************************************************************)
(* parser/parser.js                                                        *)
(***************************************************************************)
\* the {text, lemma, ...} object extractSemantics stores for a head token
semanticPart(headToken) ==
    IF IsNullToken(headToken) THEN [text |-> "null"]
    ELSE [text |-> headToken.text, lemma |-> getEffectiveLemma(headToken)]

\* Parser.extractSemantics: each part is set by the last visited node that
\* qualifies and whose child has a head token
extractSemantics(tree) ==
    LET nodes == traverse(tree)
        isTP(n) == n.category = PhraseType.TP /\ n.type = XBarLevel.XP
        isTBar(n) == n.category = PhraseType.TP /\ n.type = XBarLevel.X_BAR
        isVP(n) == n.category = PhraseType.VP
        spec(n) == n.specifier
        comp(n) == n.complement
        setters(applies(_), child(_)) ==
            SelectSeq(nodes, LAMBDA n : applies(n) /\ ~IsNullNode(child(n))
                                        /\ ~IsNullToken(getHeadToken(child(n))))
        part(applies(_), child(_)) ==
            IF setters(applies, child) = <<>> THEN [text |-> "null"]
            ELSE semanticPart(getHeadToken(
                     child(setters(applies, child)[Len(setters(applies, child))])))
    IN  [subject |-> part(isTP, spec),
         predicate |-> part(isTBar, comp),
         object |-> part(isVP, comp)]

ParseReturn(tree, sentenceType, predicateType, semantic, errors, success) ==
    [tree |-> tree, sentenceType |-> sentenceType, predicateType |-> predicateType,
     semantic |-> semantic, errors |-> errors, success |-> success, pattern |-> "null",
     threw |-> FALSE]

\* Parser.createErrorResult
parserErrorResult(message, additionalErrors) ==
    ParseReturn(NullNode, SentenceType.UNKNOWN, PredicateType.UNKNOWN, "none",
                <<patternError("none", message)>> \o additionalErrors, FALSE)

\* the errors tagPOS reports: one per token left UNKNOWN
tagErrors(tokens) ==
    LET unknown == SelectSeq(tokens, LAMBDA t : t.pos = POS.UNKNOWN)
    IN  [i \in 1..Len(unknown) |-> patternError("none", "Unknown word")]

\* Parser.parse from the result of buildTree on; pattern records which
\* pattern built the tree
parseTreeResult(errors, treeResult) ==
    IF treeResult.threw
    THEN [ParseReturn(NullNode, SentenceType.UNKNOWN, PredicateType.UNKNOWN, "none", <<>>, FALSE)
            EXCEPT !.threw = TRUE]
    ELSE IF IsNullNode(treeResult.tree)
         THEN ParseReturn(NullNode, SentenceType.UNKNOWN, PredicateType.UNKNOWN, "none",
                          errors \o treeResult.errors, FALSE)
         ELSE [ParseReturn(treeResult.tree, getSentenceType(treeResult.pattern),
                           getPredicateType(treeResult.pattern),
                           extractSemantics(treeResult.tree), errors, TRUE)
                  EXCEPT !.pattern = treeResult.pattern]

\* Parser.parse from the result of tagPOS on
parseTagged(tokens, strictMode, errors) ==
    IF strictMode /\ Len(errors) > 0
    THEN parserErrorResult("Unknown words found", errors)
    ELSE parseTreeResult(errors, matchPattern(tokens))

\* Parser.parse on the tagged tokens of the sentence; Parser.buildTree is
\* the call of matchPattern
ParserParse(tokens, strictMode) ==
    IF Len(tokens) = 0 THEN parserErrorResult("No tokens found in input", <<>>)
    ELSE parseTagged(tokens, strictMode, tagErrors(tokens))

\* Parser.validate(result); resultTokens is result.tokens
ParserValidate(parseResult, resultTokens) ==
    LET errors ==
            (IF ~parseResult.success THEN <<"Parse was not successful">> ELSE <<>>)
            \o (IF IsNullNode(parseResult.tree) THEN <<"No tree was generated">> ELSE <<>>)
            \o (IF ~IsNullNode(parseResult.tree) /\ ~isComplete(parseResult.tree)
                THEN <<"Tree is incomplete">> ELSE <<>>)
            \o (IF \E i \in 1..Len(resultTokens) : resultTokens[i].pos = POS.UNKNOWN
                THEN <<"Unknown words">> ELSE <<>>)
    IN  [isValid |-> Len(errors) = 0, errors |-> errors]

(***************************************************************************)
(* The pipeline as a state machine.  One behaviour is one call: either     *)
(* matchPattern(tokens) on its own, or NLPAnalyzer.analyze, whose stages   *)
(* are Parser.parse, SemanticExtractor.extract and                         *)
(* SemanticValidator.validate.                                             *)
(***************************************************************************)
VARIABLES tokens, op, strictMode, pc, match, parse, ids, meaning, validation, result, threw,
          options, second, change, heap, builder

vars == <<tokens, op, strictMode, pc, match, parse, ids, meaning, validation, result, threw,
          options, second, change, heap, builder>>

\* the documented scenario sentences that are longer than MaxLen, and one
\* whose subject has a determiner and an adjective
Scenarios ==
    { Sentence(<<"the", "man", "reads", "the", "books">>),
      Sentence(<<"the", "man", "was", "very", "red">>),
      Sentence(<<"the", "man", "was", "on", "the", "books">>),
      Sentence(<<"the", "red", "man", "was", "man">>) }

\* the AnalysisResult: tree and meaning are kept as hasTree and the meaning
AnalysisResult(success, errors, hasTree, resultMeaning, resultValidation) ==
    [success |-> success, errors |-> errors, hasTree |-> hasTree,
     meaning |-> resultMeaning, validation |-> resultValidation]

Init ==
    /\ tokens \in { Tag(ws) : ws \in SeqsUpTo(Lexicon, MaxLen) } \cup Scenarios
    /\ op \in {"matchPattern", "analyze"}
    /\ strictMode \in (IF op = "analyze" THEN BOOLEAN ELSE {FALSE})
    /\ pc = "start"
    /\ match = MatchReturn("null", NullNode, <<>>, <<>>)
    /\ parse = ParseReturn(NullNode, SentenceType.UNKNOWN, PredicateType.UNKNOWN, "none", <<>>, FALSE)
    /\ ids = <<>>
    /\ meaning = NullMeaning
    /\ validation = NullValidation
    /\ result = AnalysisResult(FALSE, <<>>, FALSE, NullMeaning, NullValidation)
    /\ threw = FALSE
    /\ options \in { AnalyzerOptions(strictMode, v) : v \in (IF op = "matchPattern" THEN {TRUE} ELSE BOOLEAN) }
    /\ second = [called |-> FALSE]
    /\ change = [kind |-> "none"]
    /\ heap = <<>>
    /\ builder = [category |-> "none"]

\* matchPattern(tokens) called directly
\* mutant: the matcher takes the tokens off the input array (tokens.shift())
MatchPattern_Shift ==
    /\ op = "matchPattern" /\ pc = "start"
    /\ match' = matchPattern(tokens)
    /\ threw' = match'.threw
    /\ pc' = "done"
    /\ tokens' = IF Len(tokens) = 0 THEN tokens ELSE Tail(tokens)
    /\ UNCHANGED <<op, strictMode, parse, ids, meaning, validation, result, options, second, change, heap, builder>>

MatchPattern ==
    /\ op = "matchPattern" /\ pc = "start"
    /\ match' = matchPattern(tokens)
    /\ threw' = match'.threw
    /\ pc' = "done"
    /\ UNCHANGED <<tokens, op, strictMode, parse, ids, meaning, validation, result, options, second, change, heap,
                   builder>>

\* analyze, step 1: this.parser.parse(text); an exception leaves analyze
Parse ==
    /\ op = "analyze" /\ pc = "start"
    /\ parse' = ParserParse(tokens, strictMode)
    /\ threw' = parse'.threw
    /\ pc' = IF parse'.threw THEN "done" ELSE "parsed"
    /\ UNCHANGED <<tokens, op, strictMode, match, ids, meaning, validation, result, options, second, change, heap,
                   builder>>

\* analyze when parseResult.success is false: createErrorResult
AnalyzeFail ==
    /\ pc = "parsed" /\ ~parse.success
    /\ result' = AnalysisResult(FALSE,
                     <<patternError("none", "Parsing failed")>> \o parse.errors, FALSE,
                     NullMeaning,
                     [isValid |-> FALSE, errors |-> <<error("ANALYSIS_ERROR")>>,
                      warnings |-> <<>>, details |-> "null"])
    /\ pc' = "done"
    /\ UNCHANGED <<tokens, op, strictMode, match, parse, ids, meaning, validation, threw, options, second, change, heap,
                   builder>>

\* analyze, step 2: this.extractor.extract(parseResult.tree); the entities
\* get the ids generateId returns
Extract ==
    /\ pc = "parsed" /\ parse.success
    /\ \E newIds \in [1..2 -> 1..MaxId] :
          /\ ids' = newIds
          /\ meaning' = extract(parse.tree, newIds)
    /\ pc' = "extracted"
    /\ UNCHANGED <<tokens, op, strictMode, match, parse, validation, result, threw, options, second, change, heap,
                   builder>>

\* analyze, steps 3 and 4: validate the meaning (when there is one and the
\* validate option is on) and return the result; an exception leaves analyze
Validate ==
    /\ pc = "extracted"
    /\ validation' = IF ~IsNullMeaning(meaning) /\ options.validate
                     THEN validate(meaning, options)
                     ELSE [isValid |-> TRUE, errors |-> <<>>, warnings |-> <<>>,
                           details |-> "null", threw |-> FALSE]
    /\ threw' = validation'.threw
    /\ result' = IF validation'.threw THEN result
                 ELSE AnalysisResult(parse.success /\ ~IsNullMeaning(meaning),
                          (IF IsNullMeaning(meaning)
                           THEN <<patternError("none", "Failed to extract meaning from parse tree")>>
                           ELSE <<>>) \o parse.errors,
                          ~IsNullNode(parse.tree), meaning, validation')
    /\ pc' = "done"
    /\ UNCHANGED <<tokens, op, strictMode, match, parse, ids, meaning, options, second, change, heap, builder>>

\* what a call of analyze returns as tree and meaning, given its parse result
\* and the meaning it extracted
analysisJSON(parseResult, newMeaning, analyzerOptions) ==
    IF ~parseResult.success
    THEN [called |-> TRUE, threw |-> FALSE, tree |-> AbsentNode, meaning |-> NullMeaning]
    ELSE IF ~IsNullMeaning(newMeaning) /\ analyzerOptions.validate
            /\ validate(newMeaning, analyzerOptions).threw
    THEN [called |-> TRUE, threw |-> TRUE, tree |-> AbsentNode, meaning |-> NullMeaning]
    ELSE [called |-> TRUE, threw |-> FALSE, 
          \* parseResult.tree ? parseResult.tree.toJSON() : null
          tree |-> IF IsNullNode(parseResult.tree) THEN AbsentNode
                   ELSE XBarNodeToJSON(parseResult.tree),
          \* meaning ? meaning.toJSON() : null
          meaning |-> IF IsNullMeaning(newMeaning) THEN newMeaning
                      ELSE MeaningToJSON(newMeaning)]

\* analyze from the parse result on; the entities get the ids newIds
analyzeParsed(parseResult, newIds, analyzerOptions) ==
    IF parseResult.threw
    THEN [called |-> TRUE, threw |-> TRUE, tree |-> AbsentNode, meaning |-> NullMeaning]
    ELSE analysisJSON(parseResult,
             IF parseResult.success THEN extract(parseResult.tree, newIds) ELSE NullMeaning,
             analyzerOptions)

\* analyze called once more on the same text, after the first call returned
AnalyzeAgain ==
    /\ op = "analyze" /\ pc = "done" /\ ~threw
    /\ \E newIds \in [1..2 -> 1..MaxId] :
          second' = analyzeParsed(ParserParse(tokens, strictMode), newIds, options)
    /\ pc' = "again"
    /\ UNCHANGED <<tokens, op, strictMode, match, parse, ids, meaning, validation, result,
                   threw, options, change, heap, builder>>

Next == MatchPattern \/ Parse \/ AnalyzeFail \/ Extract \/ Validate \/ AnalyzeAgain

Spec == Init /\ [][Next]_vars

(***************************************************************************)
(* Properties of the pipeline                                              *)
(***************************************************************************)

\* C1: for every sequence of tagged tokens, matchPattern, Parser.parse and
\* NLPAnalyzer.analyze return a result object and never raise an exception.
C1_NeverThrows == pc = "done" => ~threw

C3_BuildFailureNotFatal ==
    LET failsAfterMatch(name) ==
            /\ PatternMatch(name, tokens)
            /\ \/ PatternExtractComponents(name, tokens).error # "none"
               \/ PatternBuildTree(name, PatternExtractComponents(name, tokens)).threw
               \/ IsNullNode(PatternBuildTree(name, PatternExtractComponents(name, tokens)).tree)
    IN  (op = "matchPattern" /\ pc = "done") =>
            \A k \in 1..Len(match.evaluated) :
                failsAfterMatch(match.evaluated[k]) =>
                    /\ ~threw
                    /\ match.pattern = "null" =>
                          /\ match.evaluated = SENTENCE_PATTERNS
                          /\ \E e \in 1..Len(match.errors) :
                                match.errors[e].pattern = match.evaluated[k]

\* C4: whenever matchPattern ends without a successful pattern it returns
\* pattern = null and tree = null with a non-empty error list that has an
\* entry for every pattern that matched but failed to build.
C4_FailureResult ==
    LET components(name) == PatternExtractComponents(name, tokens)
        built(name) == PatternBuildTree(name, components(name))
        succeeds(name) ==
            /\ PatternMatch(name, tokens)
            /\ components(name).error = "none"
            /\ ~built(name).threw
            /\ ~IsNullNode(built(name).tree)
        names == {"Property", "Identity", "Location", "Action"}
    IN  (op = "matchPattern" /\ pc = "done"
         /\ (Len(tokens) = 0 \/ \A name \in names : ~succeeds(name))) =>
            /\ ~threw
            /\ match.pattern = "null"
            /\ IsNullNode(match.tree)
            /\ Len(match.errors) > 0
            /\ \A name \in names :
                  (Len(tokens) > 0 /\ PatternMatch(name, tokens)) =>
                      \E e \in 1..Len(match.errors) : match.errors[e].pattern = name

\* C5: for Determiner Noun Verb Determiner Noun the pipeline succeeds with a
\* TP-rooted tree and a meaning whose predicate is DOES with the verb's
\* text, whose AGENT is the first noun, whose PATIENT is the second noun, and
\* whose validation has isValid = true.
C5_ActionScenario ==
    (op = "analyze" /\ pc = "done"
     /\ [i \in 1..Len(tokens) |-> tokens[i].pos]
            = <<"DETERMINER", "NOUN", "VERB", "DETERMINER", "NOUN">>) =>
        /\ ~threw
        /\ result.success
        /\ parse.tree.category = PhraseType.TP
        /\ result.meaning.predicate.type = PredicateType.DOES
        /\ result.meaning.predicate.text = tokens[3].text
        /\ getArgument(result.meaning, SemanticRole.AGENT).text = tokens[2].text
        /\ getArgument(result.meaning, SemanticRole.PATIENT).text = tokens[5].text
        /\ result.validation.isValid = TRUE

\* C6: for Determiner Noun Copula Adjective the pipeline yields a meaning
\* whose predicate is HAS_PROPERTY with the adjective's text and whose
\* subject noun is under THEME and not under AGENT.
C6_PropertyScenario ==
    (op = "analyze" /\ pc = "done"
     /\ [i \in 1..Len(tokens) |-> tokens[i].pos]
            = <<"DETERMINER", "NOUN", "COPULA", "ADJECTIVE">>) =>
        /\ ~threw
        /\ result.success
        /\ result.meaning.predicate.type = PredicateType.HAS_PROPERTY
        /\ result.meaning.predicate.text = tokens[4].text
        /\ getArgument(result.meaning, SemanticRole.THEME).text = tokens[2].text
        /\ ~hasArgument(result.meaning, SemanticRole.AGENT)

\* C7: for Noun Copula Determiner Noun the pipeline yields a meaning of kind
\* IS_A with the subject under THEME and the head noun of the predicate
\* nominal both as the predicate's text and as the entity under PROPERTY.
C7_IdentityScenario ==
    (op = "analyze" /\ pc = "done"
     /\ [i \in 1..Len(tokens) |-> tokens[i].pos]
            = <<"NOUN", "COPULA", "DETERMINER", "NOUN">>) =>
        /\ ~threw
        /\ result.success
        /\ result.meaning.predicate.type = PredicateType.IS_A
        /\ getArgument(result.meaning, SemanticRole.THEME).text = tokens[1].text
        /\ result.meaning.predicate.text = tokens[4].text
        /\ getArgument(result.meaning, SemanticRole.PROPERTY).text = tokens[4].text
        /\ Len(result.meaning.args) = 2

(***************************************************************************)
(* Determinism and serialization                                           *)
(***************************************************************************)

\* C11: running the full pipeline twice on the same token sequence yields
\* identical serialized trees and identical serialized meanings, every
\* serialized field included.
C11_Deterministic ==
    pc = "again" =>
        /\ ~second.threw
        /\ second.tree = (IF IsNullNode(parse.tree) THEN AbsentNode ELSE XBarNodeToJSON(parse.tree))
        /\ second.meaning = (IF IsNullMeaning(result.meaning) THEN result.meaning
                             ELSE MeaningToJSON(result.meaning))

\* C18: for every tree the pipeline produces, deserializing its serialization
\* gives a tree equal to it: same levels, categories, head tokens with all
\* their fields, specifier, complement and adjunct structure and semantic
\* annotations (the parent back-references are not part of the comparison).
C18_RoundTrip ==
    (op = "analyze" /\ pc # "start" /\ ~threw /\ ~IsNullNode(parse.tree)) =>
        XBarNodeFromJSON(XBarNodeToJSON(parse.tree)) = parse.tree

\* C20: every node of every tree the pipeline produces has at most two
\* structural children (specifier and bar or complement), however many
\* adjuncts are attached to it.
C20_BinaryBranching ==
    (op = "analyze" /\ pc # "start" /\ ~parse.threw /\ ~IsNullNode(parse.tree)) =>
        \A i \in 1..Len(traverse(parse.tree)) :
            Len(children(traverse(parse.tree)[i])) - Len(traverse(parse.tree)[i].adjuncts) <= 2

\* C20 witness: the parsed tree of "the red man was man" has a node with a
\* specifier, a bar and an adjunct: three children, two of them structural.
C20_Witness ==
    /\ op = "analyze" /\ pc = "parsed" /\ ~IsNullNode(parse.tree)
    /\ \E i \in 1..Len(traverse(parse.tree)) :
          /\ Len(children(traverse(parse.tree)[i])) = 3
          /\ Len(traverse(parse.tree)[i].adjuncts) = 1

C23_NounPhraseParses ==
    (op = "analyze" /\ pc # "start"
     /\ [i \in 1..Len(tokens) |-> tokens[i].pos]
           \in { <<POS.NOUN>>, <<POS.DETERMINER, POS.NOUN>>,
                 <<POS.DETERMINER, POS.ADJECTIVE, POS.NOUN>> }) =>
        /\ ~parse.threw
        /\ parse.success
        /\ Len(findByCategory(parse.tree, PhraseType.NP)) > 0

\* C24: a sequence noun phrase + Copula + prepositional phrase (such as
\* Determiner Noun Copula Preposition Determiner Noun) is resolved by
\* matchPattern to the Location pattern, and the PP is the complement of the
\* T' bar of the returned TP.
C24_LocationResolved ==
    (op = "matchPattern" /\ pc = "done"
     /\ [i \in 1..Len(tokens) |-> tokens[i].pos]
           \in { subject \o <<POS.COPULA, POS.PREPOSITION>> \o object :
                   subject \in {<<POS.NOUN>>, <<POS.DETERMINER, POS.NOUN>>},
                   object \in {<<POS.NOUN>>, <<POS.DETERMINER, POS.NOUN>>} }) =>
        /\ ~match.threw
        /\ match.pattern = "Location"
        /\ match.tree.complement.complement.category = PhraseType.PP

\* C25: for every successful match the meaning extracted from the returned
\* tree has a predicate, and the kind of that predicate is the predicateType
\* of the matched pattern, which is the predicateType of the parse result.
C25_PredicateKindAgrees ==
    (op = "analyze" /\ pc \in {"extracted", "done", "again"} /\ ~parse.threw /\ parse.success) =>
        /\ parse.predicateType = getPredicateType(parse.pattern)
        /\ ~IsNullMeaning(meaning)
        /\ ~IsNullPredicate(meaning.predicate)
        /\ meaning.predicate.type = parse.predicateType

\* C26: when the Action pattern is the one that matches and its subject NP
\* can be built, matchPattern returns an Action result that is split at the
\* first Verb: the head token of the VP is that Verb, the subject phrase
\* holds only tokens before it and the object only tokens after it.
C26_SplitAtFirstVerb ==
    (op = "matchPattern" /\ pc = "done"
     /\ Len(match.evaluated) = Len(SENTENCE_PATTERNS)
     /\ PatternMatch("Action", tokens)
     /\ ~IsNullNode(buildNP(PatternExtractComponents("Action", tokens).subject).node)) =>
        /\ ~match.threw
        /\ match.pattern = "Action"
        /\ match.tree.complement.complement.category = PhraseType.VP
        /\ getHeadToken(match.tree.complement.complement)
              = tokens[firstIndex(tokens, POS.VERB)]
        /\ \A i \in 1..Len(traverse(match.tree.specifier)) :
              \/ IsNullToken(traverse(match.tree.specifier)[i].headToken)
              \/ traverse(match.tree.specifier)[i].headToken.position
                    < tokens[firstIndex(tokens, POS.VERB)].position
        /\ ~IsNullNode(match.tree.complement.complement.complement.complement) =>
              \A i \in 1..Len(traverse(match.tree.complement.complement.complement.complement)) :
                  \/ IsNullToken(traverse(match.tree.complement.complement.complement.complement)[i].headToken)
                  \/ traverse(match.tree.complement.complement.complement.complement)[i].headToken.position
                        > tokens[firstIndex(tokens, POS.VERB)].position

(***************************************************************************)
(* The extractor on Action trees.  ACTION_PATTERN.buildTree hands buildTP  *)
(* a subject NP and a VP; the VP is the node buildVP assembles around its  *)
(* verb head (phrase-builder.js lines 392-411).  ExtractorSpec starts the  *)
(* analysis at the parse result holding such a tree.                       *)
(***************************************************************************)
\* the VP node for a verb followed by an object run
verbPhrase(vpTokens) ==
    LET headInfo == findHead(vpTokens, PhraseType.VP)
        complementInfo == findComplement(vpTokens, headInfo.index, PhraseType.VP)
    IN  setRole(IF complementInfo.found
                THEN createPhraseWithComplement(headInfo.token, PhraseType.VP,
                         setRole(complementInfo.node, SemanticRole.PATIENT))
                ELSE createSimplePhrase(headInfo.token, PhraseType.VP),
                SemanticRole.NONE)

\* the TP of an Action sentence
actionTree(subjectTokens, vpTokens) ==
    buildTP(buildNP(subjectTokens).node, verbPhrase(vpTokens), NullToken)

\* the parse results the extractor starts from, one for each tree extract is
\* called with: the Action tree, no tree, the subject NP alone, the Action
\* tree as the complement of a CP, and TPs without a predicate; all are
\* built with the factories of xbar-node.js and buildTP
extractorParses(tree) ==
    { [ParseReturn(t, SentenceType.DECLARATIVE, PredicateType.DOES,
                   IF t = tree THEN extractSemantics(t) ELSE "none", <<>>, TRUE)
          EXCEPT !.pattern = IF t = tree THEN "Action" ELSE "none"] :
        t \in { tree, NullNode, tree.specifier,
                 createPhrase(PhraseType.CP, createBar(PhraseType.CP, NullNode, tree), NullNode),
                 buildTP(NullNode, NullNode, NullToken),
                 buildTP(tree.specifier, NullNode, NullToken) } }

ExtractorInit ==
    /\ tokens \in  \* a subject run with a noun head, a verb, an object run
         { Tag(subject \o <<Entry("reads")>> \o object) :
             subject \in { ws \in SeqsUpTo(Lexicon, MaxSubject) :
                              /\ ~IsNullNode(buildNP(Tag(ws)).node)
                              /\ \A i \in 1..Len(ws) : ws[i].pos # POS.VERB },
             object \in SeqsUpTo(Lexicon, MaxObject) }
    /\ op = "extract"
    /\ strictMode \in BOOLEAN
    /\ pc = "parsed"
    /\ match = MatchReturn("null", NullNode, <<>>, <<>>)
    /\ parse \in extractorParses(
                    actionTree(Slice(tokens, 1, firstIndex(tokens, POS.VERB) - 1),
                               Slice(tokens, firstIndex(tokens, POS.VERB), Len(tokens))))
    /\ ids = <<>>
    /\ meaning = NullMeaning
    /\ validation = NullValidation
    /\ result = AnalysisResult(FALSE, <<>>, FALSE, NullMeaning, NullValidation)
    /\ threw = FALSE
    /\ options \in { AnalyzerOptions(strictMode, v) : v \in BOOLEAN }
    /\ second = [called |-> FALSE]
    /\ change = [kind |-> "none"]
    /\ heap = <<>>
    /\ builder = [category |-> "none"]

ExtractorSpec == ExtractorInit /\ [][Extract \/ Validate]_vars

C10_Original ==
    LET n == Len(tokens)
        first(i, p) == tokens[i].pos = p /\ \A j \in 1..(i - 1) : tokens[j].pos # p
    IN  (op = "matchPattern" /\ pc = "done") =>
            (PropertyMatch(tokens) <=>
                \E c \in 1..n : \E a \in 1..n :
                    first(c, POS.COPULA) /\ first(a, POS.ADJECTIVE) /\ c < a)

\* C10 as amended: the Property shape predicate holds exactly when the
\* sequence has at least three tokens, a Copula and an Adjective, and the
\* index of the last Copula is smaller than the index of the first
\* Adjective.
C10_PropertyShape ==
    LET n == Len(tokens)
        first(i, p) == tokens[i].pos = p /\ \A j \in 1..(i - 1) : tokens[j].pos # p
        last(i, p) == tokens[i].pos = p /\ \A j \in (i + 1)..n : tokens[j].pos # p
    IN  (op = "matchPattern" /\ pc = "done") =>
            (PropertyMatch(tokens) <=>
                /\ n >= 3
                /\ \E c \in 1..n : \E a \in 1..n :
                      last(c, POS.COPULA) /\ first(a, POS.ADJECTIVE) /\ c < a)

\* C10 witness: for "man was red was" the first Copula precedes the first
\* Adjective, the last one does not, and Property was tried and not returned.
C10_Witness ==
    /\ op = "matchPattern" /\ pc = "done"
    /\ tokens = Sentence(<<"man", "was", "red", "was">>)
    /\ match.evaluated[1] = "Property"
    /\ match.pattern # "Property"

(***************************************************************************)
(* The validator on meanings built through the meaning API.                *)
(* ValidatorSpec validates a meaning under one configuration of the        *)
(* validator, then modifies the meaning and validates it again.            *)
(***************************************************************************)
\* grammatical features of an entity or predicate
Features(number, person, tense, transitive) ==
    [number |-> number, person |-> person, tense |-> tense, transitive |-> transitive]

\* the entities of the validated meanings: animate, inanimate, without
\* category, with a category that is neither animate nor inanimate, and two
\* that carry a person feature
ValidatorEntities ==
    { Entity(1, "man", "man", {"person"}, Features("SINGULAR", "none", "none", FALSE)),
      Entity(1, "books", "book", {"object"}, Features("PLURAL", "none", "none", FALSE)),
      Entity(1, "It", "none", {}, Features("none", "THIRD", "none", FALSE)),
      Entity(1, "I", "i", {"person"}, Features("SINGULAR", "FIRST", "none", FALSE)),
      Entity(1, "red", "red", {"color"}, Features("none", "none", "none", FALSE)) }

\* the predicates: one verb of each selectional class, an adjective, a noun,
\* and no predicate
ValidatorPredicates ==
    { Predicate("thinks", "think", PredicateType.DOES,
                Features("SINGULAR", "THIRD", "PRESENT", FALSE)),
      Predicate("loves", "love", PredicateType.DOES,
                Features("none", "none", "PRESENT", TRUE)),
      Predicate("builds", "build", PredicateType.DOES,
                Features("none", "none", "PRESENT", TRUE)),
      Predicate("red", "red", PredicateType.HAS_PROPERTY,
                Features("none", "none", "none", FALSE)),
      Predicate("books", "book", PredicateType.IS_A,
                Features("PLURAL", "none", "none", FALSE)),
      NullPredicate }

\* new MeaningRepresentation({predicate}) followed by setArgument calls
meaningOf(predicate, subjectRole, subject, patient) ==
    LET withPredicate == [MeaningRepresentation(SentenceType.DECLARATIVE)
                             EXCEPT !.predicate = predicate]
        withSubject == IF subjectRole = "none" THEN withPredicate
                       ELSE setArgument(withPredicate, subjectRole, subject)
    IN  IF IsNullEntity(patient) THEN withSubject
        ELSE setArgument(withSubject, SemanticRole.PATIENT, patient)

\* the ways a validated meaning is modified before it is validated again
\* .warning: a further warning condition holds; .error: an error condition
Changes ==
    [warning |-> {"clearCategories", "deletePatient", "deleteSubjectLenient", "duplicate"},
     error |-> {"deletePredicate", "deleteSubjectStrict", "numberDisagreement",
                "personDisagreement"}]

\* the role the subject is stored under ("none" without a subject)
subjectRoleOf(m) ==
    IF hasArgument(m, SemanticRole.AGENT) THEN SemanticRole.AGENT
    ELSE IF hasArgument(m, SemanticRole.THEME) THEN SemanticRole.THEME
    ELSE "none"

\* whether the change makes the condition it is named after hold newly
applicable(kind, m, configuration) ==
    CASE kind = "clearCategories" ->
             hasArgument(m, SemanticRole.PATIENT)
             /\ getArgument(m, SemanticRole.PATIENT).categories # {}
      [] kind = "deletePatient" ->
             hasArgument(m, SemanticRole.PATIENT) /\ ~IsNullPredicate(m.predicate)
             /\ m.predicate.type = PredicateType.DOES /\ isTransitive(m.predicate)
      [] kind = "deleteSubjectLenient" ->
             subjectRoleOf(m) # "none" /\ ~configuration.strictMode
      [] kind = "deleteSubjectStrict" ->
             subjectRoleOf(m) # "none" /\ configuration.strictMode
      [] kind = "duplicate" ->
             Len(m.args) > 0 /\ ~hasArgument(m, SemanticRole.LOCATION)
      [] kind = "deletePredicate" -> ~IsNullPredicate(m.predicate)
      [] kind = "numberDisagreement" ->
             subjectRoleOf(m) # "none" /\ ~IsNullPredicate(m.predicate)
             /\ m.predicate.features.number # "none"
             /\ getSubject(m).features.number # (IF m.predicate.features.number = "SINGULAR" THEN "PLURAL" ELSE "SINGULAR")
      [] kind = "personDisagreement" ->
             subjectRoleOf(m) # "none" /\ ~IsNullPredicate(m.predicate)
             /\ m.predicate.features.person # "none"
             /\ getSubject(m).features.person # (IF m.predicate.features.person = "THIRD" THEN "FIRST" ELSE "THIRD")
      [] OTHER -> FALSE

\* the modified meaning: entity.categories = [], args.delete(role),
\* setArgument, meaning.predicate = null, entity.setFeature
applyChange(kind, m) ==
    CASE kind = "clearCategories" ->
             setArgument(m, SemanticRole.PATIENT,
                 [getArgument(m, SemanticRole.PATIENT) EXCEPT !.categories = {}])
      [] kind = "deletePatient" -> deleteArgument(m, SemanticRole.PATIENT)
      [] kind \in {"deleteSubjectLenient", "deleteSubjectStrict"} ->
             deleteArgument(deleteArgument(m, SemanticRole.AGENT), SemanticRole.THEME)
      [] kind = "duplicate" ->
             setArgument(m, SemanticRole.LOCATION, [m.args[1].entity EXCEPT !.id = 2])
      [] kind = "deletePredicate" -> [m EXCEPT !.predicate = NullPredicate]
      [] kind = "numberDisagreement" ->
             setArgument(m, subjectRoleOf(m),
                 [getSubject(m) EXCEPT !.features.number = (IF m.predicate.features.number = "SINGULAR" THEN "PLURAL" ELSE "SINGULAR")])
      [] kind = "personDisagreement" ->
             setArgument(m, subjectRoleOf(m),
                 [getSubject(m) EXCEPT !.features.person = (IF m.predicate.features.person = "THIRD" THEN "FIRST" ELSE "THIRD")])
      [] OTHER -> m

ValidatorInit ==
    /\ tokens = <<>>
    /\ op = "validate"
    /\ options \in  \* every configuration of the SemanticValidator constructor
         { [strictMode |-> strict, checkSelectionalRestrictions |-> selectional,
            checkAgreement |-> agreement, validate |-> TRUE] :
             strict \in BOOLEAN, selectional \in BOOLEAN, agreement \in BOOLEAN }
    /\ strictMode = options.strictMode
    /\ pc = "built"
    /\ match = MatchReturn("null", NullNode, <<>>, <<>>)
    /\ parse = ParseReturn(NullNode, SentenceType.UNKNOWN, PredicateType.UNKNOWN, "none", <<>>, FALSE)
    /\ ids = <<>>
    /\ meaning \in
         { meaningOf(predicate, subjectRole, subject, patient) :
             predicate \in ValidatorPredicates,
             subjectRole \in {SemanticRole.AGENT, SemanticRole.THEME},
             subject \in ValidatorEntities,
             patient \in ValidatorEntities \cup {NullEntity} }
         \cup { meaningOf(predicate, "none", NullEntity, patient) :
                  predicate \in ValidatorPredicates,
                  patient \in ValidatorEntities \cup {NullEntity} }
         \cup { NullMeaning }
    /\ validation = NullValidation
    /\ result = AnalysisResult(FALSE, <<>>, FALSE, NullMeaning, NullValidation)
    /\ threw = FALSE
    /\ second = [called |-> FALSE]
    /\ change = [kind |-> "none"]
    /\ heap = <<>>
    /\ builder = [category |-> "none"]

\* validator.validate(meaning); an exception leaves validate
ValidateMeaning ==
    /\ op = "validate" /\ pc = "built"
    /\ validation' = validate(meaning, options)
    /\ threw' = validation'.threw
    /\ pc' = IF validation'.threw THEN "done" ELSE "validated"
    /\ UNCHANGED <<tokens, op, strictMode, match, parse, ids, meaning, result, options,
                   second, change, heap, builder>>

\* the meaning is modified and validator.validate(meaning) is called again
ChangeMeaning ==
    /\ op = "validate" /\ pc = "validated" /\ ~IsNullMeaning(meaning)
    /\ \E kind \in Changes.warning \cup Changes.error :
          /\ applicable(kind, meaning, options)
          /\ meaning' = applyChange(kind, meaning)
          /\ change' = [kind |-> kind, was |-> validation]
    /\ validation' = validate(meaning', options)
    /\ threw' = validation'.threw
    /\ pc' = IF validation'.threw THEN "done" ELSE "revalidated"
    /\ UNCHANGED <<tokens, op, strictMode, match, parse, ids, result, options, second, heap, builder>>

ValidatorSpec == ValidatorInit /\ [][ValidateMeaning \/ ChangeMeaning]_vars

C14_Monotone ==
    (op = "validate" /\ change.kind # "none" /\ change.was.isValid) =>
        /\ ~threw
        /\ change.kind \in Changes.warning => validation.isValid
        /\ change.kind \in Changes.error => ~validation.isValid

\* C15: with selectional checking enabled, validate reports one
\* SELECTIONAL_VIOLATION warning for the subject and one for the patient
\* exactly when that argument has at least one category and fails the
\* requirement of the predicate's verb class; an argument without categories
\* is never flagged.
C15_SelectionalExactly ==
    LET \* whether the specification counts the argument as violating the selectional
        \* requirement of the predicate's verb class: the lemma is in the class, the
        \* argument has a category, and it is not animate (animate-subject and
        \* animate-object verbs) or not inanimate (inanimate-object verbs)
        violatesSelection(predicate, argument, asSubject) ==
            LET lemma == toLowerCase(predicate.lemma)
                animate == argument.categories \cap SELECTIONAL_RESTRICTIONS.animate_categories # {}
                inanimate == argument.categories \cap SELECTIONAL_RESTRICTIONS.inanimate_categories # {}
            IN  /\ argument.categories # {}
                /\ IF asSubject
                   THEN lemma \in SELECTIONAL_RESTRICTIONS.animate_subject /\ ~animate
                   ELSE \/ lemma \in SELECTIONAL_RESTRICTIONS.animate_object /\ ~animate
                        \/ lemma \in SELECTIONAL_RESTRICTIONS.inanimate_object /\ ~inanimate
    IN
    ((op = "validate" /\ pc \in {"validated", "revalidated"}) /\ options.checkSelectionalRestrictions /\ ~IsNullMeaning(meaning)
     /\ ~IsNullPredicate(meaning.predicate)) =>
        Cardinality({ i \in 1..Len(validation.warnings) :
                        validation.warnings[i].code = "SELECTIONAL_VIOLATION" })
            = (IF ~IsNullEntity(getSubject(meaning))
                  /\ violatesSelection(meaning.predicate, getSubject(meaning), TRUE)
               THEN 1 ELSE 0)
              + (IF hasArgument(meaning, SemanticRole.PATIENT)
                    /\ violatesSelection(meaning.predicate,
                                         getArgument(meaning, SemanticRole.PATIENT), FALSE)
                 THEN 1 ELSE 0)

\* C16: with agreement checking enabled, when the subject and the predicate
\* both carry a number feature and the values differ, or both carry a person
\* feature and the values differ, validate returns an AGREEMENT_ERROR error
\* and isValid = false.
C16_AgreementError ==
    (op = "validate" /\ pc # "built" /\ options.checkAgreement
     /\ ~IsNullMeaning(meaning) /\ ~IsNullPredicate(meaning.predicate)
     /\ ~IsNullEntity(getSubject(meaning))
     /\ \E feature \in {"number", "person"} :
           /\ getSubject(meaning).features[feature] # "none"
           /\ meaning.predicate.features[feature] # "none"
           /\ getSubject(meaning).features[feature] # meaning.predicate.features[feature]) =>
        /\ ~threw
        /\ \E i \in 1..Len(validation.errors) : validation.errors[i].code = "AGREEMENT_ERROR"
        /\ ~validation.isValid

\* C17: for a meaning that has neither an AGENT nor a THEME argument validate
\* reports MISSING_SUBJECT: in strict mode as an error, so that isValid is
\* false; otherwise as a warning and not as an error, so that isValid is true
\* exactly when the meaning has a predicate.
C17_MissingSubject ==
    ((op = "validate" /\ pc \in {"validated", "revalidated"}) /\ ~IsNullMeaning(meaning)
     /\ ~hasArgument(meaning, SemanticRole.AGENT)
     /\ ~hasArgument(meaning, SemanticRole.THEME)) =>
        IF options.strictMode
        THEN /\ error("MISSING_SUBJECT") \in { validation.errors[i] : i \in 1..Len(validation.errors) }
             /\ \A i \in 1..Len(validation.warnings) : validation.warnings[i].code # "MISSING_SUBJECT"
             /\ ~validation.isValid
        ELSE /\ warning("MISSING_SUBJECT") \in { validation.warnings[i] : i \in 1..Len(validation.warnings) }
             /\ \A i \in 1..Len(validation.errors) : validation.errors[i].code # "MISSING_SUBJECT"
             /\ validation.isValid <=> ~IsNullPredicate(meaning.predicate)

\* C17 witness: in strict mode a meaning with a predicate and a PATIENT but
\* no subject has been validated, and MISSING_SUBJECT is its only error.
C17_Witness ==
    /\ (op = "validate" /\ pc \in {"validated", "revalidated"}) /\ options.strictMode
    /\ ~IsNullMeaning(meaning)
    /\ ~IsNullPredicate(meaning.predicate)
    /\ hasArgument(meaning, SemanticRole.PATIENT)
    /\ validation.errors = <<error("MISSING_SUBJECT")>>

(***************************************************************************)
(* Trees as objects.  heap[i] is the XBarNode object i: its specifier,     *)
(* complement and adjuncts are object references (0 is null) and parent is *)
(* its _parent back-reference.  TreeSpec takes the tree matchPattern       *)
(* returns for a sentence and calls addChild on its nodes.                 *)
(***************************************************************************)
MaxAddChild == 1

ChildRole == [HEAD |-> "head", COMPLEMENT |-> "complement", SPECIFIER |-> "specifier",
              ADJUNCT |-> "adjunct"]

RECURSIVE alloc(_, _, _)
RECURSIVE allocAll(_, _, _)
\* the objects of the subtree n in pre-order, n itself being object id; the
\* factories and the builder set _parent of every node they attach
allocNode(n, id, parent, specifierSize, complementSize) ==
    << [type |-> n.type, category |-> n.category, headToken |-> n.headToken,
        specifier |-> IF specifierSize = 0 THEN 0 ELSE id + 1,
        complement |-> IF complementSize = 0 THEN 0 ELSE id + 1 + specifierSize,
        adjuncts |-> [j \in 1..Len(n.adjuncts) |->
                        id + 1 + specifierSize + complementSize
                           + Len(traverseAll(SubSeq(n.adjuncts, 1, j - 1)))],
        parent |-> parent] >>
    \o (IF specifierSize = 0 THEN <<>> ELSE alloc(n.specifier, id + 1, id))
    \o (IF complementSize = 0 THEN <<>> ELSE alloc(n.complement, id + 1 + specifierSize, id))
    \o allocAll(n.adjuncts, id + 1 + specifierSize + complementSize, id)

alloc(n, id, parent) ==
    allocNode(n, id, parent,
              IF IsNullNode(n.specifier) THEN 0 ELSE Len(traverse(n.specifier)),
              IF IsNullNode(n.complement) THEN 0 ELSE Len(traverse(n.complement)))

allocAll(ns, id, parent) ==
    IF ns = <<>> THEN <<>>
    ELSE alloc(Head(ns), id, parent) \o allocAll(Tail(ns), id + Len(traverse(Head(ns))), parent)

\* this.addChild(node, role) on objects: node._parent = this, then the slot
\* named by the role is overwritten (the adjuncts array is appended to)
addChild(h, this, node, role) ==
    LET linked == [h EXCEPT ![node].parent = this]
    IN  CASE role = ChildRole.HEAD ->
                 IF ~IsNullToken(h[node].headToken)
                 THEN [linked EXCEPT ![this].headToken = h[node].headToken]
                 ELSE linked
          [] role = ChildRole.COMPLEMENT -> [linked EXCEPT ![this].complement = node]
          [] role = ChildRole.SPECIFIER -> [linked EXCEPT ![this].specifier = node]
          [] role = ChildRole.ADJUNCT -> [linked EXCEPT ![this].adjuncts = Append(@, node)]

TreeInit ==
    /\ tokens \in { Sentence(<<"man", "was", "red">>),
                    Sentence(<<"the", "man", "was", "red">>),
                    Sentence(<<"red", "man", "was", "man">>),
                    Sentence(<<"man", "was", "on", "books">>) }
    /\ op = "addChild"
    /\ strictMode = FALSE
    /\ pc = "tree"
    /\ match = matchPattern(tokens)
    /\ parse = ParseReturn(NullNode, SentenceType.UNKNOWN, PredicateType.UNKNOWN, "none", <<>>, FALSE)
    /\ ids = <<>>
    /\ meaning = NullMeaning
    /\ validation = NullValidation
    /\ result = AnalysisResult(FALSE, <<>>, FALSE, NullMeaning, NullValidation)
    /\ threw = FALSE
    /\ options = AnalyzerOptions(FALSE, TRUE)
    /\ second = [called |-> FALSE]
    /\ change = [kind |-> "addChild", calls |-> 0]
    /\ heap = alloc(match.tree, 1, 0)
    /\ builder = [category |-> "none"]

\* parent.addChild(node, role) for a node of the tree or a new node
AddChild ==
    /\ op = "addChild" /\ change.calls < MaxAddChild
    /\ \E this \in 1..Len(heap), node \in 1..(Len(heap) + 1),
          role \in {ChildRole.HEAD, ChildRole.COMPLEMENT, ChildRole.SPECIFIER, ChildRole.ADJUNCT} :
          heap' = addChild(IF node > Len(heap)
                           THEN Append(heap,  \* new XBarNode(...), not yet in a tree
                                    [type |-> XBarLevel.XP, category |-> PhraseType.AP,
                                     headToken |-> NullToken, specifier |-> 0,
                                     complement |-> 0, adjuncts |-> <<>>, parent |-> 0])
                           ELSE heap,
                           this, node, role)
    /\ change' = [change EXCEPT !.calls = @ + 1]
    /\ pc' = "modified"
    /\ UNCHANGED <<tokens, op, strictMode, match, parse, ids, meaning, validation, result,
                   threw, options, second, builder>>

TreeSpec == TreeInit /\ [][AddChild]_vars

\* C19: the structure built by the pattern matcher, also after addChild has
\* been called on it, is a tree: no node is held in more than one place, no
\* node is its own descendant through specifier, complement and adjunct
\* links, and following the parent references from a node never returns to
\* a node already visited.
C19_StrictlyTree ==
    LET \* the places that hold object node: <<parent, slot>>
        holders(node) ==
            { <<i, "specifier">> : i \in { k \in 1..Len(heap) : heap[k].specifier = node } }
            \cup { <<i, "complement">> :
                     i \in { k \in 1..Len(heap) : heap[k].complement = node } }
            \cup { <<slot[1], "adjunct", slot[2]>> :
                     slot \in { s \in (1..Len(heap)) \X (1..Len(heap)) :
                                  /\ s[2] <= Len(heap[s[1]].adjuncts)
                                  /\ heap[s[1]].adjuncts[s[2]] = node } }
        \* the objects held by object i
        heapChildren(i) ==
            ({heap[i].specifier, heap[i].complement}
                \cup { heap[i].adjuncts[j] : j \in 1..Len(heap[i].adjuncts) }) \ {0}
        \* the objects reached from the set frontier in at most n child steps
        RECURSIVE descendants(_, _)
        descendants(frontier, n) ==
            IF n = 0 THEN frontier
            ELSE descendants(frontier \cup UNION { heapChildren(i) : i \in frontier }, n - 1)
        \* following _parent from object i ends at null within n steps
        RECURSIVE reachesRoot(_, _)
        reachesRoot(i, n) ==
            IF i = 0 THEN TRUE
            ELSE IF n = 0 THEN FALSE
            ELSE reachesRoot(heap[i].parent, n - 1)
    IN  op = "addChild" =>
            \A i \in 1..Len(heap) :
                /\ Cardinality(holders(i)) <= 1
                /\ i \notin descendants(heapChildren(i), Len(heap))
                /\ reachesRoot(i, Len(heap))

(***************************************************************************)
(* The phrase builder on token runs.  BuilderSpec calls one of buildNP,    *)
(* buildVP, buildAP and buildPP on a tagged run of at most MaxLen tokens.  *)
(***************************************************************************)
BuilderInit ==
    /\ tokens \in { Tag(ws) : ws \in SeqsUpTo(Lexicon, MaxLen) }
    /\ op = "build"
    /\ strictMode = FALSE
    /\ pc = "start"
    /\ match = MatchReturn("null", NullNode, <<>>, <<>>)
    /\ parse = ParseReturn(NullNode, SentenceType.UNKNOWN, PredicateType.UNKNOWN, "none", <<>>, FALSE)
    /\ ids = <<>>
    /\ meaning = NullMeaning
    /\ validation = NullValidation
    /\ result = AnalysisResult(FALSE, <<>>, FALSE, NullMeaning, NullValidation)
    /\ threw = FALSE
    /\ options = AnalyzerOptions(FALSE, TRUE)
    /\ second = [called |-> FALSE]
    /\ change = [kind |-> "none"]
    /\ heap = <<>>
    /\ builder = [category |-> "none"]

\* buildNP(tokens), buildVP(tokens), buildAP(tokens) or buildPP(tokens)
Build ==
    /\ op = "build" /\ pc = "start"
    /\ \E category \in {PhraseType.NP, PhraseType.VP, PhraseType.AP, PhraseType.PP} :
          builder' = [category |-> category,
                      result |-> CASE category = PhraseType.NP -> buildNP(tokens)
                                   [] category = PhraseType.VP -> buildVP(tokens)
                                   [] category = PhraseType.AP -> buildAP(tokens)
                                   [] category = PhraseType.PP -> buildPP(tokens)]
    /\ threw' = builder'.result.threw
    /\ pc' = "done"
    /\ UNCHANGED <<tokens, op, strictMode, match, parse, ids, meaning, validation, result,
                   options, second, change, heap>>

BuilderSpec == BuilderInit /\ [][Build]_vars

\* C27: for every phrase category and token run the build returns; when the
\* run has a token whose part of speech is valid for the category, the head
\* of the returned node is the rightmost such token; when it has none, the
\* returned node is null and an error is reported.
C27_RightmostHead ==
    (op = "build" /\ pc = "done") =>
        LET valid == { i \in 1..Len(tokens) : tokens[i].pos \in headPOSMap(builder.category) }
        IN  /\ ~builder.result.threw
            /\ valid # {} =>
                  /\ ~IsNullNode(builder.result.node)
                  /\ getHeadToken(builder.result.node)
                        = tokens[CHOOSE i \in valid : \A j \in valid : j <= i]
            /\ valid = {} =>
                  /\ IsNullNode(builder.result.node)
                  /\ Len(builder.result.errors) > 0

\* C28 as stated: for a NounPhrase or AdjectivePhrase run with a head, the
\* specifier found by the builder is the maximal run of consecutive specifier
\* tokens (Determiner for NP, Adverb for AP) that starts at the first token
\* and ends before the head; a run whose first token is not a specifier has
\* no specifier, and the built phrase has a specifier node exactly when that
\* run is not empty.
C28_Original ==
    (op = "build" /\ pc = "done" /\ builder.category \in {PhraseType.NP, PhraseType.AP}
     /\ ~builder.result.threw /\ ~IsNullNode(builder.result.node)) =>
        LET head == findHead(tokens, builder.category).index
            specifierPOS == IF builder.category = PhraseType.NP
                            THEN {POS.DETERMINER} ELSE {POS.ADVERB}
            \* the tokens of the leading run: every token up to i is a specifier
            leading == { i \in 1..(head - 1) :
                           \A j \in 1..i : tokens[j].pos \in specifierPOS }
            info == findSpecifier(tokens, head, builder.category)
        IN  /\ info.found <=> leading # {}
            /\ info.found => { info.indices[k] : k \in 1..Len(info.indices) } = leading
            /\ ~IsNullNode(builder.result.node.specifier) <=> leading # {}

\* C28 amended: the specifier found by the builder is the first maximal run
\* of consecutive specifier tokens before the head: the tokens in front of
\* the first specifier token are skipped, the run ends at the first token
\* after it that is not a specifier, and specifier tokens that reappear
\* later are not collected; the built phrase has a specifier node, made of
\* the first token of the run, exactly when the run is not empty.
C28_SpecifierIsFirstRun ==
    (op = "build" /\ pc = "done" /\ builder.category \in {PhraseType.NP, PhraseType.AP}
     /\ ~builder.result.threw /\ ~IsNullNode(builder.result.node)) =>
        LET head == findHead(tokens, builder.category).index
            specifierPOS == IF builder.category = PhraseType.NP
                            THEN {POS.DETERMINER} ELSE {POS.ADVERB}
            specifiers == { i \in 1..(head - 1) : tokens[i].pos \in specifierPOS }
            \* the run that starts at the first specifier token
            firstRun == { i \in specifiers :
                            \A j \in 1..i : (\E s \in specifiers : s <= j) => j \in specifiers }
            info == findSpecifier(tokens, head, builder.category)
        IN  /\ info.found <=> specifiers # {}
            /\ info.found => { info.indices[k] : k \in 1..Len(info.indices) } = firstRun
            /\ ~IsNullNode(builder.result.node.specifier) <=> specifiers # {}
            /\ specifiers # {} =>
                  getHeadToken(builder.result.node.specifier)
                      = tokens[CHOOSE i \in specifiers : \A j \in specifiers : i <= j]

\* C28 witness: a phrase has been built from a run whose first token is not a
\* specifier, and it has a specifier node.
C28_Witness ==
    /\ op = "build" /\ pc = "done" /\ builder.category \in {PhraseType.NP, PhraseType.AP}
    /\ ~builder.result.threw /\ ~IsNullNode(builder.result.node)
    /\ tokens[1].pos \notin {POS.DETERMINER, POS.ADVERB}
    /\ ~IsNullNode(builder.result.node.specifier)

\* C29 as stated: the complement the builder attaches is chosen by phrase
\* category: for a VerbPhrase, a PrepositionalPhrase and a NounPhrase it is
\* the first NounPhrase after the head, for an AdjectivePhrase the first
\* PrepositionalPhrase after the head.
C29_Original ==
    (op = "build" /\ pc = "done" /\ findHead(tokens, builder.category).found) =>
        LET head == findHead(tokens, builder.category).index
            remaining == Slice(tokens, head + 1, Len(tokens))
            target == CASE builder.category = PhraseType.VP -> PhraseType.NP
                        [] builder.category = PhraseType.PP -> PhraseType.NP
                        [] builder.category = PhraseType.NP -> PhraseType.NP
                        [] builder.category = PhraseType.AP -> PhraseType.PP
            \* a phrase of the target category starts right after the head
            present ==
                IF target = PhraseType.NP
                THEN \E k \in 1..Len(remaining) :
                        /\ remaining[k].pos \in {POS.NOUN, POS.PRONOUN}
                        /\ \A j \in 1..(k - 1) :
                              \/ j = 1 /\ remaining[j].pos = POS.DETERMINER
                              \/ remaining[j].pos = POS.ADJECTIVE
                ELSE Len(remaining) > 0 /\ remaining[1].pos = POS.PREPOSITION
            info == findComplement(tokens, head, builder.category)
        IN  /\ info.found <=> present
            /\ info.found =>
                  /\ info.node.category = target
                  /\ info.tokens = SubSeq(remaining, 1, Len(info.tokens))
            /\ (~builder.result.threw /\ ~IsNullNode(builder.result.node)) =>
                  /\ ~IsNullNode(builder.result.node.complement.complement) <=> info.found
                  /\ info.found =>
                        /\ builder.result.node.complement.complement.category = target
                        /\ getHeadToken(builder.result.node.complement.complement)
                              = getHeadToken(info.node)

\* C29 amended: the complement is chosen by phrase category: for a
\* VerbPhrase and a PrepositionalPhrase it is the NounPhrase that starts
\* right after the head, for a NounPhrase and an AdjectivePhrase the
\* PrepositionalPhrase that starts right after the head; every build that
\* returns a phrase has attached exactly that complement to its bar.
C29_ComplementByCategory ==
    (op = "build" /\ pc = "done" /\ findHead(tokens, builder.category).found) =>
        LET head == findHead(tokens, builder.category).index
            remaining == Slice(tokens, head + 1, Len(tokens))
            target == CASE builder.category = PhraseType.VP -> PhraseType.NP
                        [] builder.category = PhraseType.PP -> PhraseType.NP
                        [] builder.category = PhraseType.NP -> PhraseType.PP
                        [] builder.category = PhraseType.AP -> PhraseType.PP
            \* a phrase of the target category starts right after the head
            present ==
                IF target = PhraseType.NP
                THEN \E k \in 1..Len(remaining) :
                        /\ remaining[k].pos \in {POS.NOUN, POS.PRONOUN}
                        /\ \A j \in 1..(k - 1) :
                              \/ j = 1 /\ remaining[j].pos = POS.DETERMINER
                              \/ remaining[j].pos = POS.ADJECTIVE
                ELSE Len(remaining) > 0 /\ remaining[1].pos = POS.PREPOSITION
            info == findComplement(tokens, head, builder.category)
        IN  /\ info.found <=> present
            /\ info.found =>
                  /\ info.node.category = target
                  /\ info.tokens = SubSeq(remaining, 1, Len(info.tokens))
            /\ (~builder.result.threw /\ ~IsNullNode(builder.result.node)) =>
                  /\ ~IsNullNode(builder.result.node.complement.complement) <=> info.found
                  /\ info.found =>
                        /\ builder.result.node.complement.complement.category = target
                        /\ getHeadToken(builder.result.node.complement.complement)
                              = getHeadToken(info.node)

\* C29 witness: buildNP has returned a noun phrase whose bar has a
\* prepositional phrase as complement.
C29_Witness ==
    /\ op = "build" /\ pc = "done" /\ builder.category = PhraseType.NP
    /\ ~builder.result.threw /\ ~IsNullNode(builder.result.node)
    /\ ~IsNullNode(builder.result.node.complement.complement)
    /\ builder.result.node.complement.complement.category = PhraseType.PP

\* C30: every phrase the builder assembles has the three-level shape: a
\* MaximalProjection node whose bar child is a Bar node of the same category,
\* and below that Bar node a Head-level node (type X) that wraps exactly the
\* head token, the token findHead chose for the category.
C30_ThreeLevelShape ==
    (op = "build" /\ pc = "done" /\ ~builder.result.threw
        /\ ~IsNullNode(builder.result.node)) =>
        LET xp == builder.result.node
            headToken == findHead(tokens, builder.category).token
        IN  /\ xp.type = XBarLevel.XP
            /\ ~IsNullNode(xp.complement)
            /\ xp.complement.type = XBarLevel.X_BAR
            /\ xp.complement.category = xp.category
            /\ \E k \in 1..Len(traverse(xp.complement)) :
                  /\ traverse(xp.complement)[k].type = XBarLevel.X
                  /\ traverse(xp.complement)[k].category = xp.category
                  /\ traverse(xp.complement)[k].headToken = headToken
            /\ nodeFindHead(xp).type = XBarLevel.X

====
